---- MODULE Spec2Model ----
(***************************************************************************)
(* Model of the cliq DAQ runtime pipeline: the event aligner of the        *)
(* processing worker (src/src/tui.rs event_processing, src/src/utils.rs    *)
(* align_queues) and the run lifecycle of the supervisor and the           *)
(* acquisition workers (src/src/tui.rs Tui::run, Tui::begin_run,           *)
(* data_taking_thread).                                                    *)
(***************************************************************************)
EXTENDS Integers, Sequences, FiniteSets, TLC

\* ------------------------------------------------------------------------
\* Configuration and bounds of the model
\* ------------------------------------------------------------------------
\* num_boards = config.run_settings.boards.len(): the two-board setup
NumBoards == 2
\* largest trigger identifier a board delivers
MaxTid == 3
\* number of tagged events fed to the processing worker
MaxEvents == 5
\* last identifier of the contiguous streams of SpecContig
MaxContig == 5
\* longest per-board queue align_queues is called with in SpecAlignQueues
MaxQueue == 2
\* largest trigger identifier in those queues
MaxQueueTid == 2
\* number of nested fmt frames the stack of a thread holds in SpecDisplay
MaxFmtDepth == 6
\* number of runs the supervisor begins at most in SpecRun
MaxRuns == 1
\* largest runs argument given on the command line in SpecRun
MaxRunsArg == 1
\* number of events a board delivers in one run in SpecRun
MaxHwEvents == 1
\* largest max_events_per_board of the writer
MaxCap == 4
\* largest buffer_capacity of the writer
MaxBuf == 3
\* number of append_event calls made on the writer
MaxAppends == 10
\* longest channel given to zero_suppress
MaxSamples == 3
\* largest sample value of a channel given to zero_suppress
MaxAdc == 3
\* largest magnitude of the threshold given to zero_suppress
MaxThreshold == 2
\* number of zero_suppress calls made on one channel
MaxCalls == 2
\* largest num_boards given to the delay functions
MaxNumBoards == 8

Boards == 0 .. (NumBoards - 1)
Tids == 0 .. MaxTid

VARIABLES
    queues,            \* event_processing: queues, one VecDeque per board
    misaligned_count,  \* event_processing: misaligned_count
    dropped_count,     \* event_processing: dropped_count
    curr_trig_id,      \* event_processing: curr_trig_id (expected next id)
    ev_pc,             \* processing worker: "none", "loop" or "done"
    arrived,           \* history: tagged events received, in order
    emitted,           \* history: aligned groups handed to the writer
    stale,             \* history: events popped by align_queues
    sup_pc,            \* supervisor: position in Tui::run / Tui::begin_run
    sup_i,             \* supervisor: board index of the disarm and join loops
    exit,              \* Tui.exit: "None", "Quit" or "Timeout"
    end_exit,          \* history: Tui.exit when the tick loop was left
    show_popup,        \* Tui.show_popup: "None" or the error shown
    curr_run,          \* Tui.curr_run
    max_runs,          \* Tui.max_runs: <<>> for None, <<k>> for Some(k)
    runs_begun,        \* history: number of runs begun
    shutdown,          \* the run's shutdown flag
    acq_start,         \* the start flag (Mutex<bool> + Condvar)
    endpoint_configured, \* the ready counter (Mutex<u32> + Condvar)
    w_pc,              \* acquisition worker per board: position
    w_res,             \* acquisition worker per board: returned result
    w_ev,              \* acquisition worker per board: event read, to send
    has_read,          \* history: the worker has called felib_readdata
    chan,              \* the event queue (tx_events / rx_events)
    tx_events,         \* the supervisor still holds its event sender
    rx_events,         \* the event receiver is still alive
    rx_stats,          \* the stats receiver is still alive
    ev_res,            \* processing worker: returned result
    flushed,           \* processing worker: flush_all was called at exit
    hw_armed,          \* board: armacquisition received
    hw_started,        \* board 0: swstartacquisition received
    hw_disarmed,       \* board: disarmacquisition received
    hw_next,           \* board: next trigger identifier it will mint
    hw_events,         \* board: number of events it has delivered
    hw_budget,         \* board: number of triggers it sees in one run
    log,               \* history: the supervisor's operations of this run
    wr_pc,             \* writer: "none", "open", "flushed" or "failed"
    max_events_per_board, \* HDF5Writer.max_events_per_board
    buffer_capacity,   \* HDF5Writer.buffer_capacity
    subrun,            \* HDF5Writer.subrun
    file_template,     \* HDF5Writer.file_template
    saved_events,      \* HDF5Writer.saved_events
    wr_file,           \* HDF5Writer.file: name and header of the open file
    wr_boards,         \* HDF5Writer.boards: one BoardData per board
    wr_closed,         \* the files on disk the writer no longer holds open
    wr_appended,       \* history: per board, the events append_event accepted
    wr_turn,           \* history: the board after the one appended to last
    wr_res,            \* history: what the last HDF5Writer::append_event returned
    wr_dims,           \* history: waveforms.dim() of the last append_event call
    zs_channel,        \* zero_suppress: the samples of one channel, in place
    zs_before,         \* history: the channel before the last zero_suppress
    zs_threshold,      \* zero_suppress: threshold
    zs_edge,           \* zero_suppress: edge, "Rise" or "Fall"
    zs_bl_samples,     \* zero_suppress: bl_samples
    zs_calls,          \* history: number of zero_suppress calls made
    dl_num_boards,     \* get_clock_out_delay, get_run_delay: num_boards
    dl_board_id,       \* get_clock_out_delay, get_run_delay: board_id
    dl_clock,          \* <<>> or <<the value get_clock_out_delay returned>>
    dl_run,            \* <<>> or <<the value get_run_delay returned>>
    fmt_status,        \* Display for FELibReturn: the status being rendered
    fmt_depth,         \* nested calls of FELibReturn's fmt on the stack
    fmt_pc             \* "none", "fmt", "returned" or "aborted"

alignVars == <<queues, misaligned_count, dropped_count, curr_trig_id,
               arrived, emitted, stale>>

supVars == <<sup_pc, sup_i, exit, end_exit, show_popup, curr_run, max_runs,
             runs_begun, log>>

syncVars == <<shutdown, acq_start, endpoint_configured>>

workerVars == <<w_pc, w_res, w_ev, has_read>>

chanVars == <<chan, tx_events, rx_events, rx_stats>>

hwVars == <<hw_armed, hw_started, hw_disarmed, hw_next, hw_events>>

runVars == <<supVars, syncVars, workerVars, chanVars, hwVars, hw_budget,
             ev_res, flushed>>

writerVars == <<wr_pc, max_events_per_board, buffer_capacity, subrun,
                file_template, saved_events, wr_file, wr_boards, wr_closed,
                wr_appended, wr_turn, wr_res, wr_dims>>

zsVars == <<zs_channel, zs_before, zs_threshold, zs_edge, zs_bl_samples,
            zs_calls>>

dlVars == <<dl_num_boards, dl_board_id, dl_clock, dl_run>>

fmtVars == <<fmt_status, fmt_depth, fmt_pc>>

fnVars == <<zsVars, dlVars, fmtVars>>

vars == <<alignVars, ev_pc, runVars, writerVars, fnVars>>

\* ------------------------------------------------------------------------
\* Helpers
\* ------------------------------------------------------------------------
\* isize::abs
Abs(x) == IF x < 0 THEN -x ELSE x

\* the sum of f over the set S
RECURSIVE SumOver(_, _)
SumOver(f, S) ==
    IF S = {} THEN 0
    ELSE LET x == CHOOSE y \in S : TRUE IN f[x] + SumOver(f, S \ {x})

\* Iterator::max
SetMax(S) == CHOOSE m \in S : \A x \in S : x <= m

\* queues.iter().all(|q| q.front().is_some())
AllNonEmpty(qs) == \A b \in Boards : qs[b] # <<>>

\* ids: the trigger identifiers at the queue fronts
FrontIds(qs) == [b \in Boards |-> Head(qs[b]).tid]

\* largest front identifier over the non-empty queues
MaxFront(qs) == SetMax({Head(qs[b]).tid : b \in {c \in Boards : qs[c] # <<>>}})

\* ids.windows(2).all(|w| w[0] <= w[1]), a plausible slip for ==
AllEqualLe(ids) == \A b \in Boards : b + 1 \in Boards => ids[b] <= ids[b + 1]

\* ids.windows(2).all(|w| w[0] == w[1])
AllEqual(ids) == \A b \in Boards : b + 1 \in Boards => ids[b] = ids[b + 1]

\* `tid <= max_id`, a plausible slip for <
IsStaleLe(tid, max_id) == tid <= max_id

\* `tid > max_id`, a plausible slip for <
IsStaleGt(tid, max_id) == tid > max_id

\* the test `tid < max_id` that makes align_queues pop a front
IsStale(tid, max_id) == tid < max_id

\* a dropped event left uncounted, a plausible slip
MisalignedAfterSame(mc) == mc

\* *misaligned_count += 1
MisalignedAfter(mc) == mc + 1

\* the inner loops of align_queues: for each queue in board order, pop
\* the front while it is stale, counting each pop
RECURSIVE DropStale(_, _, _)
DropStale(st, b, max_id) ==
    IF b = NumBoards THEN st
    ELSE IF st.q[b] # <<>> /\ IsStale(Head(st.q[b]).tid, max_id)
         THEN DropStale(
                [q     |-> [st.q EXCEPT ![b] = Tail(@)],
                 mc    |-> MisalignedAfter(st.mc),
                 stale |-> Append(st.stale,
                                  [uid      |-> Head(st.q[b]).uid,
                                   tid      |-> Head(st.q[b]).tid,
                                   board    |-> b,
                                   maxfront |-> MaxFront(st.q)])],
                b, max_id)
         ELSE DropStale(st, b + 1, max_id)

\* align_queues(queues, misaligned_count)
RECURSIVE align_queues(_)
align_queues(st) ==
    IF ~AllNonEmpty(st.q) THEN st
    ELSE IF AllEqual(FrontIds(st.q)) THEN st
    ELSE align_queues(DropStale(st, 0, MaxFront(st.q)))

\* let mut curr_trig_id = 0
InitTrigId == 0

\* the difference added without .abs(), a plausible slip
DroppedAfterSigned(dc, trgid, expected) ==
    IF trgid # expected THEN dc + (trgid - expected) ELSE dc

\* dropped_count after an aligned group with identifier trgid
DroppedAfter(dc, trgid, expected) ==
    IF trgid # expected THEN dc + Abs(trgid - expected) ELSE dc

\* curr_trig_id = trgid, a plausible slip
NextExpectedSame(trgid) == trgid

\* curr_trig_id = trgid + 1
NextExpected(trgid) == trgid + 1

\* queue.pop_back(), a plausible slip for pop_front
PopBack(q) == [ev |-> q[Len(q)], rest |-> SubSeq(q, 1, Len(q) - 1)]

\* queue.front().unwrap(), the event left in the queue, a plausible slip
PopFrontPeek(q) == [ev |-> Head(q), rest |-> q]

\* queue.pop_front().unwrap(): the popped event and the remaining queue
PopFront(q) == [ev |-> Head(q), rest |-> Tail(q)]

\* queues[board_id].push_front(board_event), a plausible slip
PushFront(q, ev) == <<ev>> \o q

\* queues[board_id].push_back(board_event)
PushBack(q, ev) == Append(q, ev)

\* ------------------------------------------------------------------------
\* Zero suppression (src/src/tui.rs zero_suppress)
\* ------------------------------------------------------------------------
\* `for val in channel.slice(s![0..bl_samples]) { sum += *val as f64 }`
RECURSIVE BaselineSum(_, _)
BaselineSum(channel, n) ==
    IF n = 0 THEN 0 ELSE BaselineSum(channel, n - 1) + channel[n]

\* `x - baseline <= threshold`, a plausible slip for <
RiseSuppressesLe(x, sum, n, threshold) == x * n - sum <= threshold * n

\* `x - baseline > threshold` on the Rise edge, a plausible slip
RiseSuppressesGt(x, sum, n, threshold) == x * n - sum > threshold * n

\* ZeroSuppressionEdge::Rise: `x - baseline < threshold` with
\* baseline = sum / bl_samples; both sides are multiplied by n = bl_samples
\* > 0, which is exact for integer samples and an integer threshold
RiseSuppresses(x, sum, n, threshold) == x * n - sum < threshold * n

\* ZeroSuppressionEdge::Fall: `x - baseline > threshold`
FallSuppresses(x, sum, n, threshold) == x * n - sum > threshold * n

\* the closure zero_suppress runs on each channel of the event: the
\* baseline is computed from the first bl_samples samples, then every
\* sample the edge's comparison selects is set to 0. With bl_samples = 0
\* the baseline is 0.0 / 0.0 = NaN and no comparison is true
zero_suppress(channel, threshold, edge, bl_samples) ==
    IF bl_samples = 0 THEN channel
    ELSE LET sum == BaselineSum(channel, bl_samples)
         IN  [i \in 1 .. Len(channel) |->
                 IF \/ /\ edge = "Rise"
                       /\ RiseSuppresses(channel[i], sum, bl_samples, threshold)
                    \/ /\ edge = "Fall"
                       /\ FallSuppresses(channel[i], sum, bl_samples, threshold)
                 THEN 0
                 ELSE channel[i]]

\* zero_suppress is not under evaluation
ZsIdle ==
    /\ zs_channel = <<>>
    /\ zs_before = <<>>
    /\ zs_threshold = 0
    /\ zs_edge = "Rise"
    /\ zs_bl_samples = 0
    /\ zs_calls = 0

\* ------------------------------------------------------------------------
\* The delay functions (src/src/utils.rs get_clock_out_delay, get_run_delay)
\* ------------------------------------------------------------------------
\* fn get_clock_out_delay(board_id: usize, num_boards: usize) -> isize
get_clock_out_delay(board_id, num_boards) ==
    LET first_board == board_id = 0
        last_board  == board_id = num_boards - 1
    IN  IF last_board THEN 0
        ELSE IF first_board THEN 0 - 2148
        ELSE 0 - 3111

\* `num_boards - board_id`, a plausible slip
BoardIdFromLastOffByOne(board_id, num_boards) == num_boards - board_id

\* let board_id_from_last = num_boards - board_id - 1
BoardIdFromLast(board_id, num_boards) == num_boards - board_id - 1

\* fn get_run_delay(board_id: usize, num_boards: usize) -> usize
get_run_delay(board_id, num_boards) ==
    LET first_board   == board_id = 0
        run_delay_clk == 2 * BoardIdFromLast(board_id, num_boards)
    IN  (IF first_board THEN run_delay_clk + 4 ELSE run_delay_clk) * 8

\* the delay functions are not under evaluation
DlIdle ==
    /\ dl_num_boards = 0
    /\ dl_board_id = 0
    /\ dl_clock = <<>>
    /\ dl_run = <<>>

\* ------------------------------------------------------------------------
\* Rendering a native status (src/src/felib.rs impl Display for FELibReturn)
\* ------------------------------------------------------------------------
\* enum FELibReturn
FELibReturn ==
    {"Success", "Generic", "InvalidParam", "DevAlreadyOpen", "DevNotFound",
     "MaxDev", "Command", "Internal", "NotImplemented", "InvalidHandle",
     "DevLibNotAvailable", "Timeout", "Stop", "Disabled", "BadLibVer", "Comm",
     "Unknown"}

\* nothing is being rendered
FmtIdle ==
    /\ fmt_status = "none"
    /\ fmt_depth = 0
    /\ fmt_pc = "none"

\* the other specifications leave the pure functions out
FnIdle == ZsIdle /\ DlIdle /\ FmtIdle

\* ------------------------------------------------------------------------
\* The writer (src/src/writer.rs HDF5Writer, BoardData)
\* ------------------------------------------------------------------------
\* the event the k-th append_event call for board b carries (k from 0):
\* timestamp and waveform tell the events of all boards apart, the trigger
\* identifier is the one the boards share; flag and fail are staged and
\* left unwritten exactly as the trigger identifier is and are left out
WriterEvent(b, k) ==
    [timestamp  |-> 10 * (k + 1) + b,
     waveforms  |-> 100 + 10 * (k + 1) + b,
     trigger_id |-> k]

\* a dataset of shape (max_events, ..) as created: every ordinal holds the
\* fill value
NewDataset(max_events) == [i \in 1 .. max_events |-> 0]

\* Dataset::write_slice(values, start .. start + len)
WriteSlice(ds, start, values) ==
    [i \in 1 .. Len(ds) |->
        IF start < i /\ i <= start + Len(values)
        THEN values[i - start]
        ELSE ds[i]]

\* BoardData::new: the datasets of one board's group and empty staging
\* buffers; writes is the history of the ordinal ranges written
BoardDataNew(max_events) ==
    [current_event |-> 0,
     buffer        |-> <<>>,
     timestamps    |-> NewDataset(max_events),
     waveforms     |-> NewDataset(max_events),
     triggerids    |-> NewDataset(max_events),
     writes        |-> <<>>]

\* self.buffer_count
buffer_count(bd) == Len(bd.buffer)

\* the part of the run file's path that follows an underscore, as a list
\* of characters: <<"0">> for create_run_file's run{N}_0.h5, <<"0", "0">>
\* when the path holds a "_00"
RunFileNames == {<<"0">>, <<"0", "0">>}

\* the placeholder "_{}" of the file template
Placeholder == <<"{}">>

\* filename.replace("_00", "_{}")
Replace00(name) == IF name = <<"0", "0">> THEN Placeholder ELSE name

\* the decimal digit d as a character
Digit(d) == <<"0", "1", "2", "3", "4", "5", "6", "7", "8", "9">>[d + 1]

\* format!("_{:0>2}", subrun)
FormatSubrun(k) ==
    IF k < 10 THEN <<"0", Digit(k)>>
    ELSE IF k < 100 THEN <<Digit(k \div 10), Digit(k % 10)>>
    ELSE <<Digit(k \div 100), Digit((k \div 10) % 10), Digit(k % 10)>>

\* self.file_template.replace("_{}", &format!("_{:0>2}", self.subrun))
NewFilename(template, k) ==
    IF template = Placeholder THEN FormatSubrun(k) ELSE template

\* BoardData::flush: write the staged timestamps and waveforms at
\* current_event, advance current_event and reset the buffer
flush(bd) ==
    IF buffer_count(bd) = 0 THEN bd
    ELSE [bd EXCEPT
            !.timestamps = WriteSlice(@, bd.current_event,
                              [i \in 1 .. Len(bd.buffer) |-> bd.buffer[i].timestamp]),
            !.waveforms = WriteSlice(@, bd.current_event,
                              [i \in 1 .. Len(bd.buffer) |-> bd.buffer[i].waveforms]),
            !.writes = Append(@, <<bd.current_event, buffer_count(bd)>>),
            !.current_event = @ + buffer_count(bd),
            !.buffer = <<>>]

\* `current_event + buffer_count > max_events`, a plausible slip for >=
AtCapGt(bd, max_events) == bd.current_event + buffer_count(bd) > max_events

\* if self.current_event + self.buffer_count >= self.max_events
AtCap(bd, max_events) == bd.current_event + buffer_count(bd) >= max_events

\* if self.buffer_count == self.buffer_capacity
BufferFull(bd, capacity) == buffer_count(bd) = capacity

\* the channel count event_processing gives HDF5Writer::new
n_channels == 64

\* the sample count event_processing gives HDF5Writer::new (record_len)
n_samples == 4

\* waveforms.dim() of the events offered: the datasets' shape, one sample
\* more, one channel less, and both different
EventDims ==
    {<<n_channels, n_samples>>, <<n_channels, n_samples + 1>>,
     <<n_channels - 1, n_samples>>, <<n_channels - 1, n_samples + 1>>}

\* `channels != self.n_channels && samples != self.n_samples`, a plausible
\* slip for ||
DimsMismatchBoth(dims) == dims[1] # n_channels /\ dims[2] # n_samples

\* if channels != self.n_channels || samples != self.n_samples
DimsMismatch(dims) == dims[1] # n_channels \/ dims[2] # n_samples

\* BoardData::append_event: the error "Event dimensions do not match
\* dataset dimensions", else the error "Maximum number of events reached",
\* else the event staged and the buffer flushed when it is full
BoardAppendEvent(bd, ev, dims, max_events, capacity) ==
    IF DimsMismatch(dims)
    THEN [err |-> "Dimensions", bd |-> bd]
    ELSE IF AtCap(bd, max_events)
    THEN [err |-> "MaxEvents", bd |-> bd]
    ELSE LET staged == [bd EXCEPT !.buffer = Append(@, ev)]
         IN  [err |-> "Ok",
              bd  |-> IF BufferFull(staged, capacity) THEN flush(staged) ELSE staged]

\* BoardData::take_buffer: the staged timestamps and waveforms and their
\* number; the buffer is reset
take_buffer(bd) ==
    [ts    |-> [i \in 1 .. Len(bd.buffer) |-> bd.buffer[i].timestamp],
     wf    |-> [i \in 1 .. Len(bd.buffer) |-> bd.buffer[i].waveforms],
     count |-> buffer_count(bd),
     bd    |-> [bd EXCEPT !.buffer = <<>>]]

\* append_buffer without `self.current_event += count`, a plausible slip
AppendBufferNoAdvance(bd, ts, wf, count, max_events) ==
    IF bd.current_event + count > max_events
    THEN [err |-> TRUE, bd |-> bd]
    ELSE [err |-> FALSE,
          bd  |-> [bd EXCEPT
                     !.timestamps = WriteSlice(@, bd.current_event, ts),
                     !.waveforms = WriteSlice(@, bd.current_event, wf),
                     !.writes = Append(@, <<bd.current_event, count>>)]]

\* BoardData::append_buffer: write the carried timestamps and waveforms at
\* current_event and advance it; buffer_count is not touched
append_buffer(bd, ts, wf, count, max_events) ==
    IF bd.current_event + count > max_events
    THEN [err |-> TRUE, bd |-> bd]
    ELSE [err |-> FALSE,
          bd  |-> [bd EXCEPT
                     !.timestamps = WriteSlice(@, bd.current_event, ts),
                     !.waveforms = WriteSlice(@, bd.current_event, wf),
                     !.writes = Append(@, <<bd.current_event, count>>),
                     !.current_event = @ + count]]

\* the sum taken over the staged events, a plausible slip
SumBufferCount(bds) == SumOver([b \in Boards |-> buffer_count(bds[b])], Boards)

\* self.boards.iter().map(|b| b.current_event).sum()
SumCurrentEvent(bds) == SumOver([b \in Boards |-> bds[b].current_event], Boards)

\* a file as it lies on disk: its name, its saved_events header and the
\* datasets of its board groups
OnDisk(file, bds) ==
    [name |-> file.name, saved_events |-> file.saved_events, boards |-> bds]

\* File::create(path) truncates a file of that name
Truncate(files, name) == SelectSeq(files, LAMBDA f : f.name # name)

\* HDF5Writer::rollover once File::create and create_boards succeeded:
\* the staged buffers are taken, subrun is incremented, the new file gets
\* saved_events = 0 and fresh boards, the taken buffers with count > 0 are
\* appended to them and the sum of current_event goes to the header
rollover(bds, file, closed, template, k, max_events) ==
    LET vals     == [b \in Boards |-> take_buffer(bds[b])]
        old      == [b \in Boards |-> vals[b].bd]
        new_name == NewFilename(template, k + 1)
        carried  == [b \in Boards |->
                        IF vals[b].count > 0
                        THEN append_buffer(BoardDataNew(max_events), vals[b].ts,
                                           vals[b].wf, vals[b].count, max_events)
                        ELSE [err |-> FALSE, bd |-> BoardDataNew(max_events)]]
        new_bds  == [b \in Boards |-> carried[b].bd]
    IN  [err    |-> \E b \in Boards : carried[b].err,
         old    |-> old,
         boards |-> new_bds,
         file   |-> [name |-> new_name, saved_events |-> SumCurrentEvent(new_bds)],
         saved  |-> SumCurrentEvent(new_bds),
         closed |-> IF new_name = file.name
                    THEN Truncate(closed, new_name)
                    ELSE Append(Truncate(closed, new_name), OnDisk(file, old))]

\* no writer exists: the other specifications leave the writer out
WriterIdle ==
    /\ wr_pc = "none"
    /\ max_events_per_board = 0
    /\ buffer_capacity = 0
    /\ subrun = 0
    /\ file_template = <<>>
    /\ saved_events = 0
    /\ wr_file = [name |-> <<>>, saved_events |-> 0]
    /\ wr_boards = [b \in Boards |-> BoardDataNew(0)]
    /\ wr_closed = <<>>
    /\ wr_appended = [b \in Boards |-> <<>>]
    /\ wr_turn = 0
    /\ wr_res = "none"
    /\ wr_dims = <<>>

\* ------------------------------------------------------------------------
\* The processing worker (event_processing)
\* ------------------------------------------------------------------------
AlignLocalsInit ==
    /\ queues = [b \in Boards |-> <<>>]
    /\ misaligned_count = 0
    /\ dropped_count = 0
    /\ curr_trig_id = InitTrigId
    /\ arrived = <<>>
    /\ emitted = <<>>
    /\ stale = <<>>

\* the supervisor and the acquisition workers before Tui::run is entered
RunIdle ==
    /\ sup_pc = "none"
    /\ sup_i = 0
    /\ exit = "None"
    /\ end_exit = "None"
    /\ show_popup = "None"
    /\ curr_run = 0
    /\ max_runs = <<>>
    /\ runs_begun = 0
    /\ log = <<>>
    /\ shutdown = FALSE
    /\ acq_start = FALSE
    /\ endpoint_configured = 0
    /\ w_pc = [b \in Boards |-> "none"]
    /\ w_res = [b \in Boards |-> "none"]
    /\ w_ev = [b \in Boards |-> 0]
    /\ has_read = [b \in Boards |-> FALSE]
    /\ chan = <<>>
    /\ tx_events = FALSE
    /\ rx_events = FALSE
    /\ rx_stats = TRUE
    /\ ev_res = "none"
    /\ flushed = FALSE
    /\ hw_armed = [b \in Boards |-> FALSE]
    /\ hw_started = FALSE
    /\ hw_disarmed = [b \in Boards |-> FALSE]
    /\ hw_next = [b \in Boards |-> 0]
    /\ hw_events = [b \in Boards |-> 0]
    /\ hw_budget = [b \in Boards |-> 0]

\* the processing worker alone, at the head of its loop
InitAlign ==
    /\ AlignLocalsInit
    /\ ev_pc = "loop"
    /\ RunIdle
    /\ WriterIdle
    /\ FnIdle

\* the push and the alignment of one loop iteration for a received event
\* of board b with trigger identifier t; group tells whether an aligned
\* group is at the queue fronts afterwards
AlignStep(b, t) ==
    LET ev     == [tid |-> t, uid |-> Len(arrived) + 1]
        pushed == [queues EXCEPT ![b] = PushBack(@, ev)]
        st0    == [q |-> pushed, mc |-> misaligned_count, stale |-> stale]
        st     == IF AllNonEmpty(pushed) THEN align_queues(st0) ELSE st0
    IN  [q |-> st.q, mc |-> st.mc, stale |-> st.stale,
         group |-> AllNonEmpty(pushed) /\ AllNonEmpty(st.q)]

\* one iteration of the loop for a received event of board b with
\* trigger identifier t: push, align, pop at most one aligned group, send
\* the stats and, when that send succeeded, append the group to the writer
ProcessEvent(b, t, stats_ok) ==
    LET st    == AlignStep(b, t)
        trgid == Head(st.q[0]).tid
    IN  /\ arrived' = Append(arrived, <<b, t>>)
        /\ misaligned_count' = st.mc
        /\ stale' = st.stale
        /\ IF st.group
           THEN /\ dropped_count' = DroppedAfter(dropped_count, trgid, curr_trig_id)
                /\ curr_trig_id' = NextExpected(trgid)
                /\ emitted' = IF stats_ok
                              THEN Append(emitted, [c \in Boards |-> PopFront(st.q[c]).ev])
                              ELSE emitted
                /\ queues' = [c \in Boards |-> PopFront(st.q[c]).rest]
           ELSE /\ queues' = st.q
                /\ UNCHANGED <<dropped_count, curr_trig_id, emitted>>

\* rx.recv() returns a tagged event
RecvEvent ==
    /\ ev_pc = "loop"
    /\ Len(arrived) < MaxEvents
    /\ \E b \in Boards, t \in Tids : ProcessEvent(b, t, TRUE)
    /\ UNCHANGED <<writerVars, fnVars, hw_budget, ev_pc, runVars>>

\* rx.recv() returns Err(RecvError): flush and leave the loop
RecvDisconnected ==
    /\ ev_pc = "loop"
    /\ ev_pc' = "done"
    /\ UNCHANGED <<writerVars, fnVars, hw_budget, alignVars, runVars>>

NextAlign == RecvEvent \/ RecvDisconnected

SpecAlign == InitAlign /\ [][NextAlign]_vars

\* the queue contents align_queues is called with: every board's queue
\* holds up to MaxQueue events with any identifiers up to MaxQueueTid, in
\* any order
QueueContents ==
    UNION {[1 .. n -> 0 .. MaxQueueTid] : n \in 0 .. MaxQueue}

\* align_queues is entered with arbitrary queue contents
InitAlignQueues ==
    /\ \E tids \in [Boards -> QueueContents] :
         queues = [b \in Boards |->
                     [i \in 1 .. Len(tids[b]) |->
                         [tid |-> tids[b][i], uid |-> b * MaxQueue + i]]]
    /\ misaligned_count = 0
    /\ dropped_count = 0
    /\ curr_trig_id = InitTrigId
    /\ arrived = <<>>
    /\ emitted = <<>>
    /\ stale = <<>>
    /\ ev_pc = "align"
    /\ RunIdle
    /\ WriterIdle
    /\ FnIdle

\* align_queues: the outer loop breaks because a queue is empty or the
\* fronts are all equal
AlignBreak ==
    /\ ev_pc = "align"
    /\ IF AllNonEmpty(queues) THEN AllEqual(FrontIds(queues)) ELSE TRUE
    /\ ev_pc' = "returned"
    /\ UNCHANGED <<writerVars, fnVars, alignVars, runVars>>

\* align_queues: one pass of the outer loop that does not break: the
\* inner loops drop the fronts below the largest front
AlignPass ==
    /\ ev_pc = "align"
    /\ AllNonEmpty(queues)
    /\ ~AllEqual(FrontIds(queues))
    /\ LET st == DropStale([q |-> queues, mc |-> misaligned_count,
                            stale |-> stale], 0, MaxFront(queues))
       IN  /\ queues' = st.q
           /\ misaligned_count' = st.mc
           /\ stale' = st.stale
    /\ UNCHANGED <<writerVars, fnVars, dropped_count, curr_trig_id, arrived,
                   emitted, ev_pc, runVars>>

NextAlignQueues == AlignBreak \/ AlignPass

\* the loop of align_queues keeps running until it breaks
SpecAlignQueues ==
    InitAlignQueues /\ [][NextAlignQueues]_vars /\ WF_vars(NextAlignQueues)

\* the processing worker fed with the same contiguous identifiers 0, 1, ...
\* by every board, in any interleaving
RecvContig ==
    /\ ev_pc = "loop"
    /\ \E b \in Boards :
         LET t == Len(SelectSeq(arrived, LAMBDA e : e[1] = b))
         IN  /\ t <= MaxContig
             /\ ProcessEvent(b, t, TRUE)
    /\ UNCHANGED <<writerVars, fnVars, hw_budget, ev_pc, runVars>>

NextContig == RecvContig \/ RecvDisconnected

SpecContig == InitAlign /\ [][NextContig]_vars

\* ------------------------------------------------------------------------
\* The run lifecycle: supervisor (Tui::run, Tui::begin_run), acquisition
\* workers (data_taking_thread), processing worker (event_processing)
\* ------------------------------------------------------------------------
NoBoard == 0 - 1

\* self.max_runs.unwrap_or(0)
UnwrapOr0(m) == IF m = <<>> THEN 0 ELSE m[1]

\* `count >= N - 1`, a plausible off-by-one slip
ReadyReachedOffByOne(count) == count >= NumBoards - 1

\* the supervisor leaves `while *count < self.boards.len()`
ReadyReached(count) == count >= NumBoards

\* shutdown stored whatever ended the run, a plausible slip
SetsShutdownAlways(e) == TRUE

\* `if let Some(StatusExit::Quit) = self.exit`: the supervisor stores
\* shutdown = true
SetsShutdown(e) == e = "Quit"

\* every event sender is dropped: the supervisor's and each worker's clone
NoSenders == ~tx_events /\ \A b \in Boards : w_pc[b] = "done"

\* Tui::run is entered with the runs argument in max_runs; every board
\* sees budget[b] triggers in a run
InitRunWith(runs, budget) ==
    /\ AlignLocalsInit
    /\ ev_pc = "none"
    /\ sup_pc = "configure"
    /\ sup_i = 0
    /\ exit = "None"
    /\ end_exit = "None"
    /\ show_popup = "None"
    /\ curr_run = 0
    /\ max_runs \in runs
    /\ runs_begun = 0
    /\ log = <<>>
    /\ shutdown = FALSE
    /\ acq_start = FALSE
    /\ endpoint_configured = 0
    /\ w_pc = [b \in Boards |-> "none"]
    /\ w_res = [b \in Boards |-> "none"]
    /\ w_ev = [b \in Boards |-> 0]
    /\ has_read = [b \in Boards |-> FALSE]
    /\ chan = <<>>
    /\ tx_events = FALSE
    /\ rx_events = FALSE
    /\ rx_stats = FALSE
    /\ ev_res = "none"
    /\ flushed = FALSE
    /\ hw_armed = [b \in Boards |-> FALSE]
    /\ hw_started = FALSE
    /\ hw_disarmed = [b \in Boards |-> FALSE]
    /\ hw_next = [b \in Boards |-> 0]
    /\ hw_events = [b \in Boards |-> 0]
    /\ hw_budget = budget
    /\ WriterIdle
    /\ FnIdle

\* every board sees MaxHwEvents triggers in a run; the runs argument is
\* omitted or any k up to MaxRunsArg
InitRun ==
    InitRunWith({<<>>} \cup {<<k>> : k \in 0 .. MaxRunsArg},
                [b \in Boards |-> MaxHwEvents])

\* board 0 sees one trigger more than the other boards; one run is asked
\* for
InitRunUneven ==
    InitRunWith({<<1>>},
                [b \in Boards |-> IF b = 0 THEN MaxHwEvents + 1 ELSE MaxHwEvents])

\* Tui::run returns an error: its locals (event sender, stats receiver,
\* join handles) are dropped
SupReturnsErr ==
    /\ sup_pc' = "failed"
    /\ tx_events' = FALSE
    /\ rx_stats' = FALSE

\* the operation op on every board, in the order of self.boards
ConfigOps(op) == [i \in 1 .. NumBoards |-> <<op, i - 1>>]

\* the boards configured before they are reset, a plausible slip
ConfigureLogResetLast ==
    ConfigOps("configure") \o ConfigOps("sync") \o ConfigOps("reset")

\* run, at the head of the outer loop: /cmd/reset to every board, then
\* configure_board for every board, then configure_sync for every board
ConfigureLog ==
    ConfigOps("reset") \o ConfigOps("configure") \o ConfigOps("sync")

\* reset, configure_board and configure_sync for every board, then the
\* run's shutdown flag and stats channel
SupConfigure ==
    /\ sup_pc = "configure"
    /\ runs_begun < MaxRuns
    /\ \E ok \in BOOLEAN :
         IF ok
         THEN /\ sup_pc' = "spawn"
              /\ log' = ConfigureLog
              /\ shutdown' = FALSE
              /\ rx_stats' = TRUE
              /\ hw_armed' = [b \in Boards |-> FALSE]
              /\ hw_started' = FALSE
              /\ hw_disarmed' = [b \in Boards |-> FALSE]
              /\ hw_next' = [b \in Boards |-> 0]
              /\ hw_events' = [b \in Boards |-> 0]
              /\ UNCHANGED tx_events
         ELSE /\ SupReturnsErr
              /\ UNCHANGED <<log, shutdown, hwVars>>
    /\ UNCHANGED <<writerVars, fnVars, hw_budget, sup_i, exit, end_exit, show_popup, curr_run, max_runs,
                   runs_begun, acq_start, endpoint_configured, workerVars,
                   chan, rx_events, ev_res, flushed, alignVars, ev_pc>>

\* begin_run: the start flag, the ready counter, the event channel and one
\* data-taking thread per board
SupSpawn ==
    /\ sup_pc = "spawn"
    /\ sup_pc' = "wait_ready"
    /\ runs_begun' = runs_begun + 1
    /\ log' = Append(log, <<"spawn", NoBoard>>)
    /\ acq_start' = FALSE
    /\ endpoint_configured' = 0
    /\ chan' = <<>>
    /\ tx_events' = TRUE
    /\ rx_events' = TRUE
    /\ w_pc' = [b \in Boards |-> "init"]
    /\ w_res' = [b \in Boards |-> "none"]
    /\ w_ev' = [b \in Boards |-> 0]
    /\ has_read' = [b \in Boards |-> FALSE]
    /\ ev_pc' = "none"
    /\ ev_res' = "none"
    /\ flushed' = FALSE
    /\ UNCHANGED <<writerVars, fnVars, hw_budget, sup_i, exit, end_exit, show_popup, curr_run, max_runs,
                   shutdown, rx_stats, hwVars, alignVars>>

\* begin_run: wait until all boards have configured their endpoints
SupWaitReady ==
    /\ sup_pc = "wait_ready"
    /\ ReadyReached(endpoint_configured)
    /\ sup_pc' = "set_start"
    /\ UNCHANGED <<writerVars, fnVars, hw_budget, sup_i, exit, end_exit, show_popup, curr_run, max_runs,
                   runs_begun, log, syncVars, workerVars, chanVars, hwVars,
                   ev_res, flushed, alignVars, ev_pc>>

\* begin_run: *started = true; cvar.notify_all()
SupSetStart ==
    /\ sup_pc = "set_start"
    /\ sup_pc' = "send_start"
    /\ acq_start' = TRUE
    /\ log' = Append(log, <<"set_start", NoBoard>>)
    /\ UNCHANGED <<writerVars, fnVars, hw_budget, sup_i, exit, end_exit, show_popup, curr_run, max_runs,
                   runs_begun, shutdown, endpoint_configured, workerVars,
                   chanVars, hwVars, ev_res, flushed, alignVars, ev_pc>>

\* begin_run: felib_sendcommand(boards[0], "/cmd/swstartacquisition")?
SupSendStart ==
    /\ sup_pc = "send_start"
    /\ \E ok \in BOOLEAN :
         IF ok
         THEN /\ sup_pc' = "spawn_ev"
              /\ hw_started' = TRUE
              /\ log' = Append(log, <<"send_start", 0>>)
              /\ UNCHANGED <<tx_events, rx_events, rx_stats>>
         ELSE /\ SupReturnsErr
              /\ rx_events' = FALSE
              /\ UNCHANGED <<hw_started, log>>
    /\ UNCHANGED <<writerVars, fnVars, hw_budget, sup_i, exit, end_exit, show_popup, curr_run, max_runs,
                   runs_begun, syncVars, workerVars, chan, hw_armed,
                   hw_disarmed, hw_next, hw_events, ev_res, flushed,
                   alignVars, ev_pc>>

\* begin_run: spawn the event-processing thread; run: exit = None
SupSpawnEv ==
    /\ sup_pc = "spawn_ev"
    /\ sup_pc' = "tick"
    /\ ev_pc' = "loop"
    /\ queues' = [b \in Boards |-> <<>>]
    /\ misaligned_count' = 0
    /\ dropped_count' = 0
    /\ curr_trig_id' = InitTrigId
    /\ arrived' = <<>>
    /\ emitted' = <<>>
    /\ stale' = <<>>
    /\ exit' = "None"
    /\ end_exit' = "None"
    /\ log' = Append(log, <<"spawn_ev", NoBoard>>)
    /\ UNCHANGED <<writerVars, fnVars, hw_budget, sup_i, show_popup, curr_run, max_runs, runs_begun,
                   syncVars, workerVars, chanVars, hwVars, ev_res, flushed>>

\* run: one pass of the 1 Hz loop body: handle_events may record a quit,
\* then an elapsed run duration records a timeout
SupTick ==
    /\ sup_pc = "tick"
    /\ exit = "None"
    /\ ~shutdown
    /\ \E quit \in BOOLEAN, elapsed \in BOOLEAN :
         exit' = IF elapsed THEN "Timeout" ELSE IF quit THEN "Quit" ELSE "None"
    /\ UNCHANGED <<writerVars, fnVars, hw_budget, sup_pc, sup_i, end_exit, show_popup, curr_run, max_runs,
                   runs_begun, log, syncVars, workerVars, chanVars, hwVars,
                   ev_res, flushed, alignVars, ev_pc>>

\* run: the loop is left; on a user quit the shutdown flag is stored
SupEndLoop ==
    /\ sup_pc = "tick"
    /\ exit # "None" \/ shutdown
    /\ sup_pc' = "disarm"
    /\ sup_i' = 0
    /\ end_exit' = exit
    /\ IF SetsShutdown(exit)
       THEN /\ shutdown' = TRUE
            /\ log' = Append(log, <<"set_shutdown", NoBoard>>)
       ELSE UNCHANGED <<shutdown, log>>
    /\ UNCHANGED <<writerVars, fnVars, hw_budget, exit, show_popup, curr_run, max_runs, runs_begun,
                   acq_start, endpoint_configured, workerVars, chanVars,
                   hwVars, ev_res, flushed, alignVars, ev_pc>>

\* run: felib_sendcommand(dev, "/cmd/disarmacquisition")? for the next board
SupDisarm ==
    /\ sup_pc = "disarm"
    /\ \E ok \in BOOLEAN :
         IF ok
         THEN /\ hw_disarmed' = [hw_disarmed EXCEPT ![sup_i] = TRUE]
              /\ log' = Append(log, <<"disarm", sup_i>>)
              /\ IF sup_i + 1 < NumBoards
                 THEN sup_i' = sup_i + 1 /\ sup_pc' = "disarm"
                 ELSE sup_i' = 0 /\ sup_pc' = "join"
              /\ UNCHANGED <<tx_events, rx_stats>>
         ELSE /\ SupReturnsErr
              /\ UNCHANGED <<hw_disarmed, log, sup_i>>
    /\ UNCHANGED <<writerVars, fnVars, hw_budget, exit, end_exit, show_popup, curr_run, max_runs,
                   runs_begun, syncVars, workerVars, chan, rx_events,
                   hw_armed, hw_started, hw_next, hw_events, ev_res,
                   flushed, alignVars, ev_pc>>

\* the join loop goes from the last board straight on to ev_handle.join(),
\* the supervisor's sender still alive, a plausible slip
SupNextJoinNoDrop ==
    IF sup_i + 1 < NumBoards
    THEN sup_i' = sup_i + 1 /\ sup_pc' = "join"
    ELSE sup_i' = 0 /\ sup_pc' = "join_ev"

\* the join loop goes on to the next board, or on to drop(tx_events)
SupNextJoin ==
    IF sup_i + 1 < NumBoards
    THEN sup_i' = sup_i + 1 /\ sup_pc' = "join"
    ELSE sup_i' = 0 /\ sup_pc' = "drop_tx"

\* run: h.join() of the next board thread; an error result opens the popup
SupJoin ==
    /\ sup_pc = "join"
    /\ w_pc[sup_i] = "done"
    /\ log' = Append(log, <<"join", sup_i>>)
    /\ IF w_res[sup_i] # "Ok"
       THEN /\ show_popup' = w_res[sup_i]
            /\ sup_pc' = "popup"
            /\ UNCHANGED sup_i
       ELSE /\ SupNextJoin
            /\ UNCHANGED show_popup
    /\ UNCHANGED <<writerVars, fnVars, hw_budget, exit, end_exit, curr_run, max_runs, runs_begun,
                   syncVars, workerVars, chanVars, hwVars, ev_res, flushed,
                   alignVars, ev_pc>>

\* run: handle_error_event() after a board thread's error: wait for a
\* terminal event, a pressed q records a quit
SupPopup ==
    /\ sup_pc = "popup"
    /\ \E quit \in BOOLEAN : exit' = IF quit THEN "Quit" ELSE exit
    /\ SupNextJoin
    /\ UNCHANGED <<writerVars, fnVars, hw_budget, end_exit, show_popup, curr_run, max_runs, runs_begun,
                   log, syncVars, workerVars, chanVars, hwVars, ev_res,
                   flushed, alignVars, ev_pc>>

\* run: drop(tx_events)
SupDropTx ==
    /\ sup_pc = "drop_tx"
    /\ sup_pc' = "join_ev"
    /\ tx_events' = FALSE
    /\ log' = Append(log, <<"drop_tx", NoBoard>>)
    /\ UNCHANGED <<writerVars, fnVars, hw_budget, sup_i, exit, end_exit, show_popup, curr_run, max_runs,
                   runs_begun, syncVars, workerVars, chan, rx_events,
                   rx_stats, hwVars, ev_res, flushed, alignVars, ev_pc>>

\* run: ev_handle.join(); a panic of the processing worker makes run
\* return "Event processing panic"; after an error result
\* handle_error_event() waits for a terminal event, a pressed q records a
\* quit
SupJoinEv ==
    /\ sup_pc = "join_ev"
    /\ ev_pc = "done"
    /\ log' = Append(log, <<"join_ev", NoBoard>>)
    /\ IF ev_res = "Panic"
       THEN /\ SupReturnsErr
            /\ UNCHANGED exit
       ELSE /\ sup_pc' = "finish"
            /\ \E quit \in BOOLEAN :
                 exit' = IF ev_res # "Ok" /\ quit THEN "Quit" ELSE exit
            /\ UNCHANGED <<tx_events, rx_stats>>
    /\ UNCHANGED <<writerVars, fnVars, hw_budget, sup_i, end_exit, show_popup, curr_run, max_runs,
                   runs_begun, syncVars, workerVars, chan, rx_events, hwVars,
                   ev_res, flushed, alignVars, ev_pc>>

\* run: after a quit, or when curr_run reaches max_runs, close the boards
\* and return; otherwise go round the outer loop
SupFinish ==
    /\ sup_pc = "finish"
    /\ rx_stats' = FALSE
    /\ IF exit = "Quit"
       THEN /\ sup_pc' = "closed"
            /\ UNCHANGED curr_run
       ELSE /\ curr_run' = curr_run + 1
            /\ sup_pc' = IF curr_run + 1 = UnwrapOr0(max_runs)
                            /\ UnwrapOr0(max_runs) # 0
                         THEN "closed"
                         ELSE "configure"
    /\ UNCHANGED <<writerVars, fnVars, hw_budget, sup_i, exit, end_exit, show_popup, max_runs, runs_begun,
                   log, syncVars, workerVars, chan, tx_events, rx_events,
                   hwVars, ev_res, flushed, alignVars, ev_pc>>

\* data_taking_thread: resolve the handles, activate the endpoint, set the
\* format and arm; any failing facade call returns its status
WorkerInit(b) ==
    /\ w_pc[b] = "init"
    /\ \E ok \in BOOLEAN :
         IF ok
         THEN /\ w_pc' = [w_pc EXCEPT ![b] = "ready"]
              /\ hw_armed' = [hw_armed EXCEPT ![b] = TRUE]
              /\ UNCHANGED w_res
         ELSE /\ w_pc' = [w_pc EXCEPT ![b] = "done"]
              /\ w_res' = [w_res EXCEPT ![b] = "FELib"]
              /\ UNCHANGED hw_armed
    /\ UNCHANGED <<writerVars, fnVars, hw_budget, supVars, syncVars, w_ev, has_read, chanVars, hw_started,
                   hw_disarmed, hw_next, hw_events, ev_res, flushed,
                   alignVars, ev_pc>>

\* data_taking_thread: *count += 1; cond.notify_all()
WorkerReady(b) ==
    /\ w_pc[b] = "ready"
    /\ w_pc' = [w_pc EXCEPT ![b] = "wait_start"]
    /\ endpoint_configured' = endpoint_configured + 1
    /\ UNCHANGED <<writerVars, fnVars, hw_budget, supVars, shutdown, acq_start, w_res, w_ev, has_read,
                   chanVars, hwVars, ev_res, flushed, alignVars, ev_pc>>

\* data_taking_thread: while !*started { wait }
WorkerStart(b) ==
    /\ w_pc[b] = "wait_start"
    /\ acq_start
    /\ w_pc' = [w_pc EXCEPT ![b] = "check"]
    /\ UNCHANGED <<writerVars, fnVars, hw_budget, supVars, syncVars, w_res, w_ev, has_read, chanVars,
                   hwVars, ev_res, flushed, alignVars, ev_pc>>

\* data_taking_thread: the shutdown poll at the head of the loop
WorkerCheck(b) ==
    /\ w_pc[b] = "check"
    /\ IF shutdown
       THEN /\ w_pc' = [w_pc EXCEPT ![b] = "done"]
            /\ w_res' = [w_res EXCEPT ![b] = "Ok"]
       ELSE /\ w_pc' = [w_pc EXCEPT ![b] = "read"]
            /\ UNCHANGED w_res
    /\ UNCHANGED <<writerVars, fnVars, hw_budget, supVars, syncVars, w_ev, has_read, chanVars, hwVars,
                   ev_res, flushed, alignVars, ev_pc>>

\* felib_readdata returns Success: the board hands over its next event,
\* whose trigger identifier is the next one or, after a lost trigger, the
\* one after
WorkerReadSuccess(b) ==
    /\ w_pc[b] = "read"
    /\ hw_started
    /\ hw_events[b] < hw_budget[b]
    /\ \E t \in {hw_next[b], hw_next[b] + 1} :
         /\ w_ev' = [w_ev EXCEPT ![b] = t]
         /\ hw_next' = [hw_next EXCEPT ![b] = t + 1]
    /\ hw_events' = [hw_events EXCEPT ![b] = @ + 1]
    /\ has_read' = [has_read EXCEPT ![b] = TRUE]
    /\ w_pc' = [w_pc EXCEPT ![b] = "send"]
    /\ UNCHANGED <<writerVars, fnVars, hw_budget, supVars, syncVars, w_res, chanVars, hw_armed, hw_started,
                   hw_disarmed, ev_res, flushed, alignVars, ev_pc>>

\* the statuses of FELibReturn other than Success and Stop: Timeout, and
\* all those the match has no arm of its own for, taken as one
RetryStatuses == {"Timeout", "Other"}

\* the loop left on a status that is neither Success, Timeout nor Stop, a
\* plausible slip
AfterStatusEnding(st) == IF st = "Timeout" THEN "check" ELSE "done"

\* FELibReturn::Timeout => continue, _ => (): the loop goes round
AfterStatus(st) == "check"

\* felib_readdata returns Timeout or any other status but Success and
\* Stop
WorkerReadRetry(b) ==
    /\ w_pc[b] = "read"
    /\ has_read' = [has_read EXCEPT ![b] = TRUE]
    /\ \E st \in RetryStatuses :
         w_pc' = [w_pc EXCEPT ![b] = AfterStatus(st)]
    /\ UNCHANGED <<writerVars, fnVars, hw_budget, supVars, syncVars, w_res, w_ev, chanVars, hwVars, ev_res,
                   flushed, alignVars, ev_pc>>

\* felib_readdata returns Stop, which a disarmed board does: the loop ends
WorkerReadStop(b) ==
    /\ w_pc[b] = "read"
    /\ hw_disarmed[b]
    /\ has_read' = [has_read EXCEPT ![b] = TRUE]
    /\ w_pc' = [w_pc EXCEPT ![b] = "done"]
    /\ w_res' = [w_res EXCEPT ![b] = "Ok"]
    /\ UNCHANGED <<writerVars, fnVars, hw_budget, supVars, syncVars, w_ev, chanVars, hwVars, ev_res,
                   flushed, alignVars, ev_pc>>

\* the flag left as it is after a failed send, a plausible slip
KeepOnSendError(flag) == flag

\* data_taking_thread, Err arm of tx.send: shutdown.store(true, ..)
StoreOnSendError(flag) == TRUE

\* the flag left as it is after a failed stats send, a plausible slip
KeepOnStatsError(flag) == flag

\* event_processing, Err arm of tx_stats.send: shutdown.store(true, ..)
StoreOnStatsError(flag) == TRUE

\* data_taking_thread: tx.send(board_event); a failed send stores shutdown
\* and returns DataTakingTransit
WorkerSend(b) ==
    /\ w_pc[b] = "send"
    /\ IF rx_events
       THEN /\ chan' = Append(chan, <<b, w_ev[b]>>)
            /\ w_pc' = [w_pc EXCEPT ![b] = "check"]
            /\ UNCHANGED <<shutdown, w_res>>
       ELSE /\ shutdown' = StoreOnSendError(shutdown)
            /\ w_pc' = [w_pc EXCEPT ![b] = "done"]
            /\ w_res' = [w_res EXCEPT ![b] = "DataTakingTransit"]
            /\ UNCHANGED chan
    /\ UNCHANGED <<writerVars, fnVars, hw_budget, supVars, acq_start, endpoint_configured, w_ev, has_read,
                   tx_events, rx_events, rx_stats, hwVars, ev_res, flushed,
                   alignVars, ev_pc>>

\* event_processing: one loop iteration on a received event: align, send
\* the stats, append the group to the writer, then poll the shutdown
\* flag; wr_ok tells whether every writer.append_event(..) of the
\* iteration returned Ok: the result is unwrapped, so that an error (a
\* rollover that could not create its file) panics the thread, which
\* drops the receiver and the writer and stores nothing to shutdown
EvRecv ==
    /\ ev_pc = "loop"
    /\ chan # <<>>
    /\ \E wr_ok \in BOOLEAN :
       LET b     == Head(chan)[1]
           t     == Head(chan)[2]
           group == AlignStep(b, t).group
       IN  /\ ProcessEvent(b, t, rx_stats)
           /\ chan' = Tail(chan)
           /\ IF group /\ ~rx_stats
              THEN /\ shutdown' = StoreOnStatsError(shutdown)
                   /\ ev_pc' = "done"
                   /\ ev_res' = "EventProcessingTransit"
                   /\ rx_events' = FALSE
                   /\ UNCHANGED flushed
              ELSE IF group /\ ~wr_ok
                   THEN /\ ev_pc' = "done"
                        /\ ev_res' = "Panic"
                        /\ rx_events' = FALSE
                        /\ UNCHANGED <<shutdown, flushed>>
              ELSE IF shutdown
                   THEN /\ flushed' = TRUE
                        /\ ev_pc' = "done"
                        /\ ev_res' = "Ok"
                        /\ rx_events' = FALSE
                        /\ UNCHANGED shutdown
                   ELSE UNCHANGED <<shutdown, ev_pc, ev_res, rx_events, flushed>>
    /\ UNCHANGED <<writerVars, fnVars, hw_budget, supVars, acq_start, endpoint_configured, workerVars,
                   tx_events, rx_stats, hwVars>>

\* event_processing: rx.recv() fails because every sender is dropped:
\* flush_all and leave
EvDisconnected ==
    /\ ev_pc = "loop"
    /\ sup_pc # "none"
    /\ chan = <<>>
    /\ NoSenders
    /\ flushed' = TRUE
    /\ ev_pc' = "done"
    /\ ev_res' = "Ok"
    /\ rx_events' = FALSE
    /\ UNCHANGED <<writerVars, fnVars, hw_budget, supVars, syncVars, workerVars, chan, tx_events, rx_stats,
                   hwVars, alignVars>>

Supervisor ==
    \/ SupConfigure \/ SupSpawn \/ SupWaitReady \/ SupSetStart
    \/ SupSendStart \/ SupSpawnEv \/ SupTick \/ SupEndLoop \/ SupDisarm
    \/ SupJoin \/ SupPopup \/ SupDropTx \/ SupJoinEv
    \/ SupFinish

Worker(b) ==
    \/ WorkerInit(b) \/ WorkerReady(b) \/ WorkerStart(b) \/ WorkerCheck(b)
    \/ WorkerReadSuccess(b) \/ WorkerReadRetry(b) \/ WorkerReadStop(b)
    \/ WorkerSend(b)

NextRun ==
    \/ Supervisor
    \/ \E b \in Boards : Worker(b)
    \/ EvRecv
    \/ EvDisconnected

SpecRun == InitRun /\ [][NextRun]_vars

\* the scheduling of the threads: the supervisor, every acquisition worker
\* and the processing worker keep running while they can take a step; the
\* run duration elapses (a tick that changes nothing is no progress); a
\* disarmed board answers a read with Stop
FairRun ==
    /\ WF_vars(Supervisor)
    /\ \A b \in Boards : WF_vars(Worker(b)) /\ SF_vars(WorkerReadStop(b))
    /\ WF_vars(EvRecv)
    /\ WF_vars(EvDisconnected)

SpecRunFair == SpecRun /\ FairRun

\* a run in which board 0 sees one trigger more than the other boards
SpecRunUneven == InitRunUneven /\ [][NextRun]_vars

\* ------------------------------------------------------------------------
\* The writer's operations (HDF5Writer::new, append_event, flush_all)
\* ------------------------------------------------------------------------
\* HDF5Writer::new(filename, .., max_events_per_board, buffer_capacity, ..):
\* create_boards()? builds fixed-shape datasets of shape (max_events, ..)
\* with chunk (buffer_capacity, ..), which the library refuses when the
\* chunk exceeds the shape, so a writer exists only with
\* buffer_capacity <= max_events_per_board
InitWriter ==
    /\ AlignLocalsInit
    /\ ev_pc = "loop"
    /\ RunIdle
    /\ FnIdle
    /\ wr_pc = "open"
    /\ max_events_per_board \in 1 .. MaxCap
    /\ buffer_capacity \in 1 .. MaxBuf
    /\ buffer_capacity <= max_events_per_board
    /\ subrun = 0
    /\ \E filename \in RunFileNames :
         /\ file_template = Replace00(filename)
         /\ wr_file = [name |-> filename, saved_events |-> 0]
    /\ saved_events = 0
    /\ wr_boards = [b \in Boards |-> BoardDataNew(max_events_per_board)]
    /\ wr_closed = <<>>
    /\ wr_appended = [b \in Boards |-> <<>>]
    /\ wr_turn = 0
    /\ wr_res = "none"
    /\ wr_dims = <<>>

\* the number of append_event calls that returned Ok
TotalAppended == SumOver([b \in Boards |-> Len(wr_appended[b])], Boards)

\* HDF5Writer::append_event(board, ..) returns Ok with the boards bds
AppendOk(b, ev, bds) ==
    /\ wr_boards' = bds
    /\ wr_appended' = [wr_appended EXCEPT ![b] = Append(@, ev)]
    /\ wr_pc' = "open"
    /\ wr_res' = "Ok"

\* HDF5Writer::append_event(board, ..) returns the error res, on which
\* event_processing panics
AppendErr(bds, res) ==
    /\ wr_boards' = bds
    /\ wr_pc' = "failed"
    /\ wr_res' = res
    /\ UNCHANGED wr_appended

\* HDF5Writer::append_event(board, .., waveforms, ..) for waveforms of the
\* dimensions dims: the board's append_event; on "Maximum number of events
\* reached" rollover()? and the append once more against the new boards,
\* whose result is returned; any other error is returned as it is
append_event(b, dims) ==
    /\ wr_pc = "open"
    /\ TotalAppended < MaxAppends
    /\ wr_turn' = (b + 1) % NumBoards
    /\ wr_dims' = dims
    /\ LET ev    == WriterEvent(b, Len(wr_appended[b]))
           first == BoardAppendEvent(wr_boards[b], ev, dims,
                                     max_events_per_board, buffer_capacity)
           ro    == rollover(wr_boards, wr_file, wr_closed, file_template,
                             subrun, max_events_per_board)
           again == BoardAppendEvent(ro.boards[b], ev, dims,
                                     max_events_per_board, buffer_capacity)
       IN  IF first.err = "Ok"
           THEN /\ AppendOk(b, ev, [wr_boards EXCEPT ![b] = first.bd])
                /\ UNCHANGED <<subrun, saved_events, wr_file, wr_closed>>
           ELSE IF first.err = "Dimensions"
           THEN /\ AppendErr(wr_boards, "Dimensions")
                /\ UNCHANGED <<subrun, saved_events, wr_file, wr_closed>>
           ELSE /\ subrun' = subrun + 1
                /\ \E created \in BOOLEAN :
                     IF ~created
                     THEN \* File::create(&new_path)? fails
                          /\ AppendErr(ro.old, "Rollover")
                          /\ UNCHANGED <<saved_events, wr_file, wr_closed>>
                     ELSE /\ wr_file' = ro.file
                          /\ wr_closed' = ro.closed
                          /\ saved_events' = ro.saved
                          /\ IF ro.err
                             THEN AppendErr(ro.boards, "Rollover")
                             ELSE IF again.err # "Ok"
                             THEN AppendErr(ro.boards, again.err)
                             ELSE AppendOk(b, ev, [ro.boards EXCEPT ![b] = again.bd])
    /\ UNCHANGED <<max_events_per_board, buffer_capacity, file_template,
                   alignVars, ev_pc, runVars, fnVars>>

\* append_event for any board and waveforms of any dimensions
AppendAny == \E b \in Boards : \E dims \in EventDims : append_event(b, dims)

\* the events appended board by board as they arrive rather than group by
\* group, a plausible slip
AppendOutOfTurn ==
    \E b \in Boards : append_event(b, <<n_channels, n_samples>>)

\* append_event for the boards in turn, as event_processing appends the
\* events of an aligned group, which come from the boards' own readout
AppendInTurn == append_event(wr_turn, <<n_channels, n_samples>>)

\* HDF5Writer::flush_all: flush every board, then saved_events = the sum
\* of current_event, written to the header of the open file
flush_all ==
    /\ wr_pc = "open"
    /\ wr_pc' = "flushed"
    /\ LET bds == [b \in Boards |-> flush(wr_boards[b])]
       IN  /\ wr_boards' = bds
           /\ saved_events' = SumCurrentEvent(bds)
           /\ wr_file' = [wr_file EXCEPT !.saved_events = SumCurrentEvent(bds)]
    /\ UNCHANGED <<max_events_per_board, buffer_capacity, subrun,
                   file_template, wr_closed, wr_appended, wr_turn, wr_res,
                   wr_dims, alignVars, ev_pc, runVars, fnVars>>

NextWriter == AppendAny \/ flush_all

SpecWriter == InitWriter /\ [][NextWriter]_vars

NextWriterGroups == AppendInTurn \/ flush_all

SpecWriterGroups == InitWriter /\ [][NextWriterGroups]_vars

\* ------------------------------------------------------------------------
\* Zero suppression and the delay functions applied to bounded inputs
\* ------------------------------------------------------------------------
\* the channels of at most MaxSamples samples with values up to MaxAdc
Channels ==
    UNION {[1 .. n -> 0 .. MaxAdc] : n \in 1 .. MaxSamples}

\* the channel and the arguments of the spec's scenario S5
S5Channel == <<100, 100, 100, 100, 120, 180, 200, 100>>

S5Args == [threshold |-> 50, edge |-> "Rise", bl_samples |-> 4]

\* a channel of u16 samples and the arguments zero_suppress gets from the
\* configuration: bl_samples up to the channel's length (a longer slice
\* panics), an integer threshold of either sign
InitZs ==
    /\ AlignLocalsInit
    /\ ev_pc = "none"
    /\ RunIdle
    /\ WriterIdle
    /\ DlIdle
    /\ FmtIdle
    /\ \/ /\ zs_channel \in Channels
          /\ zs_threshold \in (0 - MaxThreshold) .. MaxThreshold
          /\ zs_edge \in {"Rise", "Fall"}
          /\ zs_bl_samples \in 0 .. Len(zs_channel)
       \/ /\ zs_channel = S5Channel
          /\ zs_threshold = S5Args.threshold
          /\ zs_edge = S5Args.edge
          /\ zs_bl_samples = S5Args.bl_samples
    /\ zs_before = <<>>
    /\ zs_calls = 0

\* zero_suppress(&mut board_event, threshold, edge, bl_samples) on the
\* channel, in place
ZeroSuppress ==
    /\ zs_channel # <<>>
    /\ zs_calls < MaxCalls
    /\ zs_before' = zs_channel
    /\ zs_channel' = zero_suppress(zs_channel, zs_threshold, zs_edge,
                                   zs_bl_samples)
    /\ zs_calls' = zs_calls + 1
    /\ UNCHANGED <<zs_threshold, zs_edge, zs_bl_samples, dlVars, fmtVars, alignVars,
                   ev_pc, runVars, writerVars>>

NextZs == ZeroSuppress

SpecZs == InitZs /\ [][NextZs]_vars

\* num_boards >= 1 boards and one of their indices
InitDelay ==
    /\ AlignLocalsInit
    /\ ev_pc = "none"
    /\ RunIdle
    /\ WriterIdle
    /\ ZsIdle
    /\ FmtIdle
    /\ dl_num_boards \in 1 .. MaxNumBoards
    /\ dl_board_id \in 0 .. (dl_num_boards - 1)
    /\ dl_clock = <<>>
    /\ dl_run = <<>>

\* let clock_out_delay = get_clock_out_delay(board_id, num_boards)
GetClockOutDelay ==
    /\ dl_num_boards >= 1
    /\ dl_clock = <<>>
    /\ dl_clock' = <<get_clock_out_delay(dl_board_id, dl_num_boards)>>
    /\ UNCHANGED <<dl_num_boards, dl_board_id, dl_run, zsVars, fmtVars, alignVars,
                   ev_pc, runVars, writerVars>>

\* let run_delay = get_run_delay(board_id, num_boards)
GetRunDelay ==
    /\ dl_num_boards >= 1
    /\ dl_run = <<>>
    /\ dl_run' = <<get_run_delay(dl_board_id, dl_num_boards)>>
    /\ UNCHANGED <<dl_num_boards, dl_board_id, dl_clock, zsVars, fmtVars, alignVars,
                   ev_pc, runVars, writerVars>>

NextDelay == GetClockOutDelay \/ GetRunDelay

SpecDelay == InitDelay /\ [][NextDelay]_vars

\* val.to_string() is called on a native status: ToString::to_string calls
\* Display::fmt once
InitDisplay ==
    /\ AlignLocalsInit
    /\ ev_pc = "none"
    /\ RunIdle
    /\ WriterIdle
    /\ ZsIdle
    /\ DlIdle
    /\ fmt_status \in FELibReturn
    /\ fmt_depth = 1
    /\ fmt_pc = "fmt"

\* fmt: write!(f, "{}", self) renders self with Display, which is this fmt
\* again: one more frame on the stack
DisplayFmt ==
    /\ fmt_pc = "fmt"
    /\ fmt_depth < MaxFmtDepth
    /\ fmt_depth' = fmt_depth + 1
    /\ UNCHANGED <<fmt_status, fmt_pc, zsVars, dlVars, alignVars, ev_pc,
                   runVars, writerVars>>

\* the stack of the thread is exhausted: the guard page is hit and the
\* process aborts
DisplayOverflow ==
    /\ fmt_pc = "fmt"
    /\ fmt_depth = MaxFmtDepth
    /\ fmt_pc' = "aborted"
    /\ UNCHANGED <<fmt_status, fmt_depth, zsVars, dlVars, alignVars, ev_pc,
                   runVars, writerVars>>

NextDisplay == DisplayFmt \/ DisplayOverflow

\* the rendering runs on while it can
SpecDisplay ==
    InitDisplay /\ [][NextDisplay]_vars /\ WF_vars(NextDisplay)

\* ------------------------------------------------------------------------
\* Properties of the aligner
\* ------------------------------------------------------------------------
\* the trigger identifiers board b delivered, in arrival order
BoardStream(b) ==
    LET s == SelectSeq(arrived, LAMBDA e : e[1] = b)
    IN  [i \in 1 .. Len(s) |-> s[i][2]]

SeqRange(s) == {s[i] : i \in 1 .. Len(s)}

StrictlyIncreasing(s) == \A i \in 1 .. (Len(s) - 1) : s[i] < s[i + 1]

\* every board delivers strictly increasing trigger identifiers
MonotoneInput == \A b \in Boards : StrictlyIncreasing(BoardStream(b))

\* the identifier of each emitted group, as event_processing reads it
EmittedTids == [i \in 1 .. Len(emitted) |-> emitted[i][0].tid]

EmittedUids == {emitted[i][b].uid : i \in 1 .. Len(emitted), b \in Boards}

QueuedCount(b) == Len(queues[b])

\* C1: every aligned group handed to the writer holds one event of each
\* board, the event of board b really came from board b, and all events of
\* the group carry the same trigger identifier, whatever the input was.
C1_GroupSharesTriggerId ==
    \A i \in 1 .. Len(emitted) :
        \A b \in Boards :
            /\ arrived[emitted[i][b].uid] = <<b, emitted[i][b].tid>>
            /\ emitted[i][b].tid = emitted[i][0].tid

\* a group was emitted right after stale events had been dropped
C1_Witness ==
    /\ Len(emitted) >= 2
    /\ Len(stale) >= 1
    /\ ~MonotoneInput

\* C2: when every board delivers strictly increasing identifiers, the
\* identifiers of the successively emitted groups are strictly increasing.
C2_GroupsStrictlyIncreasing ==
    MonotoneInput => StrictlyIncreasing(EmittedTids)

\* two groups came out of monotone streams with a gap between them
C2_Witness ==
    /\ MonotoneInput
    /\ Len(emitted) >= 2
    /\ EmittedTids[2] > EmittedTids[1] + 1

\* C3: misaligned_count is the number of events align_queues popped, which
\* is the number of received events neither emitted in a group nor still
\* queued; each popped event had an identifier strictly below the largest
\* queue front at the moment it was popped, and none was handed to the
\* writer.
C3_MisalignedCountsStale ==
    /\ misaligned_count = Len(stale)
    /\ misaligned_count =
         Len(arrived) - NumBoards * Len(emitted)
           - SumOver([b \in Boards |-> QueuedCount(b)], Boards)
    /\ \A i \in 1 .. Len(stale) :
         /\ stale[i].tid < stale[i].maxfront
         /\ stale[i].uid \notin EmittedUids
         /\ arrived[stale[i].uid] = <<stale[i].board, stale[i].tid>>
    /\ \A i, j \in 1 .. Len(stale) : i # j => stale[i].uid # stale[j].uid

\* stale events were dropped, a group was emitted and an event is queued
C3_Witness ==
    /\ misaligned_count >= 2
    /\ Len(emitted) >= 1
    /\ \E b \in Boards : queues[b] # <<>>

\* a step of the processing worker that emits an aligned group
GroupStep == Len(emitted') = Len(emitted) + 1

\* the identifier of the group a GroupStep emits
NewTid == emitted'[Len(emitted')][0].tid

\* C4 as stated: the expected identifier is taken from the first aligned
\* group, so the first group adds nothing to dropped_count; every later
\* group with identifier T adds |T - E| and sets E to T + 1.
C4_FirstGroupAddsNothing ==
    [][GroupStep =>
         /\ Len(emitted) = 0 => dropped_count' = dropped_count
         /\ Len(emitted) > 0 =>
              dropped_count' = dropped_count + Abs(NewTid - curr_trig_id)
         /\ curr_trig_id' = NewTid + 1]_vars

\* C4 as amended: the expected identifier E starts at 0 and stays 0 until
\* the first group; every group, the first included, with identifier T
\* adds |T - E| to dropped_count and sets E to T + 1; no other step changes
\* either.
C4_EveryGroupAddsDifference ==
    /\ [](Len(emitted) = 0 => curr_trig_id = 0 /\ dropped_count = 0)
    /\ [][IF GroupStep
          THEN /\ dropped_count' = dropped_count + Abs(NewTid - curr_trig_id)
               /\ curr_trig_id' = NewTid + 1
          ELSE UNCHANGED <<dropped_count, curr_trig_id>>]_vars

\* the first group had identifier 2 and added 2; a later group with an
\* identifier below the expected one added its distance
C4_Witness ==
    /\ Len(emitted) = 2
    /\ EmittedTids = <<2, 0>>
    /\ dropped_count = 5

\* some board left out an identifier below the last one it delivered
SomeBoardSkips ==
    \E b \in Boards :
        LET s == BoardStream(b)
        IN  Len(s) >= 1 /\ \E t \in 0 .. s[Len(s)] : t \notin SeqRange(s)

FirstTid == EmittedTids[1]

LastTid == EmittedTids[Len(emitted)]

\* C5 as stated: with strictly increasing streams of which one skips
\* identifiers, dropped_count is the number of identifiers between the
\* first and the last aligned group that are missing from every board.
C5_DroppedCountsCommonSkips ==
    (MonotoneInput /\ SomeBoardSkips /\ Len(emitted) >= 1) =>
        dropped_count =
            Cardinality({t \in FirstTid .. LastTid :
                            \A b \in Boards : t \notin SeqRange(BoardStream(b))})

\* C5 as amended: dropped_count is the number of identifiers from 0 up to
\* the last aligned group's that are missing from at least one board,
\* which are the identifiers up to there that formed no aligned group.
C5_DroppedCountsUnalignedIds ==
    (MonotoneInput /\ SomeBoardSkips /\ Len(emitted) >= 1) =>
        /\ dropped_count =
             Cardinality({t \in 0 .. LastTid :
                             \E b \in Boards : t \notin SeqRange(BoardStream(b))})
        /\ dropped_count =
             Cardinality((0 .. LastTid) \ SeqRange(EmittedTids))

\* one board skipped an identifier the other delivered, between two groups
C5_Witness ==
    /\ MonotoneInput
    /\ SomeBoardSkips
    /\ Len(emitted) >= 2
    /\ FirstTid = 0
    /\ misaligned_count >= 1
    /\ dropped_count >= 1

\* the number of events every board has delivered
MinDelivered ==
    CHOOSE m \in 0 .. (MaxContig + 1) :
        /\ \A b \in Boards : Len(BoardStream(b)) >= m
        /\ \E b \in Boards : Len(BoardStream(b)) = m

\* C6: when all boards deliver the same contiguous identifiers 0, 1, ...
\* then in every interleaving exactly one group per identifier delivered
\* by all boards has been emitted, in order, with all members equal, and
\* misaligned_count and dropped_count are 0.
C6_ContiguousStreamsAlign ==
    /\ \A b \in Boards :
         BoardStream(b) = [i \in 1 .. Len(BoardStream(b)) |-> i - 1]
    /\ EmittedTids = [i \in 1 .. MinDelivered |-> i - 1]
    /\ \A i \in 1 .. Len(emitted) :
         \A b \in Boards : emitted[i][b].tid = i - 1
    /\ misaligned_count = 0
    /\ dropped_count = 0

\* every board delivered 0 .. MaxContig and all the groups are out
C6_Witness ==
    /\ \A b \in Boards : Len(BoardStream(b)) = MaxContig + 1
    /\ Len(emitted) = MaxContig + 1

\* the input of scenario S2: (board, trigger identifier) in arrival order
S2Input == << <<0, 0>>, <<1, 1>>, <<0, 1>>, <<1, 2>>, <<0, 2>> >>

QueuedTids(b) == [i \in 1 .. Len(queues[b]) |-> queues[b][i].tid]

\* C7 as stated: two boards and the input S2 give exactly one group, at
\* identifier 1, misaligned_count 1, dropped_count 0, board 0's queue
\* empty and board 1's queue holding identifier 2.
C7_ScenarioS2OneGroup ==
    (NumBoards = 2 /\ arrived = S2Input) =>
        /\ EmittedTids = <<1>>
        /\ misaligned_count = 1
        /\ dropped_count = 0
        /\ QueuedTids(0) = <<>>
        /\ QueuedTids(1) = <<2>>

\* C7 as amended: the input S2 gives two groups, at identifiers 1 and 2,
\* misaligned_count 1 (the event (board 0, 0)), dropped_count 1 and both
\* queues empty.
C7_ScenarioS2TwoGroups ==
    (NumBoards = 2 /\ arrived = S2Input) =>
        /\ EmittedTids = <<1, 2>>
        /\ misaligned_count = 1
        /\ Len(stale) = 1 /\ stale[1].uid = 1
        /\ dropped_count = 1
        /\ QueuedTids(0) = <<>>
        /\ QueuedTids(1) = <<>>

\* the whole input S2 has been processed
C7_Witness == NumBoards = 2 /\ arrived = S2Input

\* C8 as stated: aligned groups 0 and then 3 leave dropped_count = 3.
C8_GapLeavesThree ==
    (NumBoards = 2 /\ EmittedTids = <<0, 3>>) => dropped_count = 3

\* C8 as amended: aligned groups 0 and then 3 leave dropped_count = 2,
\* the skipped identifiers 1 and 2.
C8_GapLeavesTwo ==
    (NumBoards = 2 /\ EmittedTids = <<0, 3>>) =>
        dropped_count = 2 /\ curr_trig_id = 4

\* the groups 0 and 3 have been emitted
C8_Witness == NumBoards = 2 /\ EmittedTids = <<0, 3>>

\* ------------------------------------------------------------------------
\* Properties of the run lifecycle
\* ------------------------------------------------------------------------
\* the supervisor has done operation op in this run
Logged(op) == \E i \in 1 .. Len(log) : log[i] = op

\* every occurrence of operation later in the log follows one of earlier
LoggedBefore(earlier, later) ==
    \A i \in 1 .. Len(log) :
        log[i] = later => \E j \in 1 .. (i - 1) : log[j] = earlier

\* C9: the supervisor sets the start flag only when the ready counter has
\* reached N, every worker having configured its endpoint, armed its board
\* and now waiting on the flag; no worker makes its first native read before
\* the flag is set; and board 0 gets swstartacquisition only after the flag
\* was set and the waiters notified.
C9_StartBarrier ==
    /\ [][(~acq_start /\ acq_start') =>
            /\ endpoint_configured = NumBoards
            /\ \A b \in Boards : hw_armed[b] /\ w_pc[b] = "wait_start"]_vars
    /\ [][\A b \in Boards : (~has_read[b] /\ has_read'[b]) => acq_start]_vars
    /\ [][(~hw_started /\ hw_started') => acq_start]_vars
    /\ [](LoggedBefore(<<"set_start", NoBoard>>, <<"send_start", 0>>))

\* the start command is out, one worker has read from its board and
\* another has not yet left its wait on the start flag
C9_Witness ==
    /\ hw_started
    /\ \E b \in Boards : has_read[b]
    /\ \E b \in Boards : w_pc[b] = "wait_start"

\* the supervisor's operations at the end of a run come in the order
\* disarm every board, join every board thread, drop the event sender,
\* join the processing thread
EndOfRunOrder ==
    /\ \A b, c \in Boards : LoggedBefore(<<"disarm", b>>, <<"join", c>>)
    /\ \A b \in Boards : LoggedBefore(<<"join", b>>, <<"drop_tx", NoBoard>>)
    /\ LoggedBefore(<<"drop_tx", NoBoard>>, <<"join_ev", NoBoard>>)

\* C10 as stated: at the end of every run, ended by timeout or by quit,
\* the supervisor sets the shutdown flag before it disarms the boards and
\* before it joins the board threads; then it joins them, drops its event
\* sender and only then joins the processing thread.
C10_ShutdownSetAtEveryRunEnd ==
    (end_exit \in {"Quit", "Timeout"}) =>
        /\ \A b \in Boards :
             /\ LoggedBefore(<<"set_shutdown", NoBoard>>, <<"disarm", b>>)
             /\ LoggedBefore(<<"set_shutdown", NoBoard>>, <<"join", b>>)
        /\ EndOfRunOrder

\* C10 as amended: the supervisor sets the shutdown flag, before the
\* disarm and the joins, only at the end of a run ended by a user quit; at
\* the end of a run ended by timeout it does not set the flag; either way
\* the order is disarm, join the board threads, drop the event sender, join
\* the processing thread.
C10_ShutdownSetOnQuitOnly ==
    /\ end_exit = "Quit" =>
         /\ \A b \in Boards :
              /\ LoggedBefore(<<"set_shutdown", NoBoard>>, <<"disarm", b>>)
              /\ LoggedBefore(<<"set_shutdown", NoBoard>>, <<"join", b>>)
         /\ Logged(<<"set_shutdown", NoBoard>>) => shutdown
    /\ end_exit # "Quit" => ~Logged(<<"set_shutdown", NoBoard>>)
    /\ EndOfRunOrder

\* a run ended by timeout has been wound up to the join of the processing
\* thread with the shutdown flag never set
C10_Witness ==
    /\ end_exit = "Timeout"
    /\ Logged(<<"join_ev", NoBoard>>)
    /\ ~shutdown
    /\ Len(emitted) >= 1

\* the supervisor has joined every board thread and the processing thread
AllJoined ==
    /\ \A b \in Boards : Logged(<<"join", b>>)
    /\ Logged(<<"join_ev", NoBoard>>)

\* C11: when the processing worker has left its loop at the end of a run
\* ended by timeout or by user quit, no tagged event an acquisition worker
\* enqueued is left unread in the event queue.
C11_ExitsDrained ==
    (ev_pc = "done" /\ ev_res = "Ok" /\ end_exit \in {"Quit", "Timeout"}) =>
        chan = <<>>

\* after a user quit the processing worker has flushed and returned Ok
\* while an enqueued event was still unread
C11_Witness ==
    /\ ev_pc = "done"
    /\ ev_res = "Ok"
    /\ flushed
    /\ end_exit = "Quit"
    /\ chan # <<>>

\* an acquisition worker has returned a typed error
WorkerFailed(b) == w_pc[b] = "done" /\ w_res[b] \notin {"none", "Ok"}

\* C12: whenever an acquisition worker returns a typed error, a facade
\* error of its Init phase included, the supervisor eventually has joined
\* every acquisition worker and the processing worker and shows the error
\* modal (or Tui::run has returned an error of its own): it never waits
\* forever.
C12_WorkerErrorEndsRun ==
    \A b \in Boards :
        WorkerFailed(b) ~>
            \/ AllJoined /\ show_popup # "None"
            \/ sup_pc = "failed"

\* a worker's Init phase failed, the other worker waits for the start flag
\* and the supervisor waits for a ready count that can no longer be reached
C12_Witness ==
    /\ sup_pc = "wait_ready"
    /\ \E b \in Boards : WorkerFailed(b) /\ w_res[b] = "FELib"
    /\ \E b \in Boards : w_pc[b] = "wait_start"
    /\ ~ENABLED NextRun

\* ------------------------------------------------------------------------
\* Properties of the writer
\* ------------------------------------------------------------------------
\* the files of the run on disk, in the order they were created
AllFiles == Append(wr_closed, OnDisk(wr_file, wr_boards))

\* what the group of board b in file f stores at its ordinals
\* [0, current_event)
StoredIn(f, b) ==
    [i \in 1 .. f.boards[b].current_event |->
        [timestamp  |-> f.boards[b].timestamps[i],
         waveforms  |-> f.boards[b].waveforms[i],
         trigger_id |-> f.boards[b].triggerids[i]]]

\* the concatenation over the files, in order, of what they store for
\* board b
RECURSIVE StoredFrom(_, _)
StoredFrom(files, b) ==
    IF files = <<>> THEN <<>>
    ELSE StoredIn(Head(files), b) \o StoredFrom(Tail(files), b)

Stored(b) == StoredFrom(AllFiles, b)

\* the sequence of the values of one field
Field(s, name) == [i \in 1 .. Len(s) |-> s[i][name]]

\* C13: for each board, after any sequence of appends followed by
\* flush-all, the concatenation over the files of the run of the values
\* stored in timestamps, waveforms and triggerids at the ordinals
\* [0, current_event) is the sequence of values appended, in order.
C13_DiskEqualsAppended ==
    wr_pc = "flushed" =>
        \A b \in Boards :
            /\ Field(Stored(b), "timestamp") = Field(wr_appended[b], "timestamp")
            /\ Field(Stored(b), "waveforms") = Field(wr_appended[b], "waveforms")
            /\ Field(Stored(b), "trigger_id") = Field(wr_appended[b], "trigger_id")

\* after appends that never rolled over and flush-all, the one file holds
\* the appended timestamps and waveforms, but its triggerids hold the fill
\* value where another identifier was appended
C13_Witness ==
    /\ wr_pc = "flushed"
    /\ subrun = 0
    /\ \E b \in Boards :
         /\ Len(wr_appended[b]) >= 2
         /\ Field(Stored(b), "timestamp") = Field(wr_appended[b], "timestamp")
         /\ Field(Stored(b), "waveforms") = Field(wr_appended[b], "waveforms")
         /\ wr_appended[b][2].trigger_id # 0
         /\ Stored(b)[2].trigger_id = 0

\* the number of places on disk that store exactly the event ev of board b
Copies(b, ev) == Cardinality({j \in 1 .. Len(Stored(b)) : Stored(b)[j] = ev})

\* the first write to the open file of board b was a carried-over buffer:
\* a flush of a full buffer writes buffer_capacity events, the flush of
\* flush-all comes last
CarriedInto(b) ==
    /\ Len(wr_boards[b].writes) >= 2
    /\ wr_boards[b].writes[1][2] < buffer_capacity

\* C14: events staged but not yet flushed when a rollover happens are
\* written to the new file intact and in order, so that after the run no
\* appended event is lost or stored twice across the files of the run,
\* for any cap and buffer capacity.
C14_RolloverPreservesBuffer ==
    (wr_pc = "flushed" /\ subrun > 0) =>
        \A b \in Boards :
            /\ Len(Stored(b)) = Len(wr_appended[b])
            /\ \A i \in 1 .. Len(wr_appended[b]) :
                 Copies(b, wr_appended[b][i]) = 1

\* a rollover opened a second file and carried a staged event into it:
\* its timestamp and waveform are there, its trigger identifier is not
C14_Witness ==
    /\ wr_pc = "flushed"
    /\ Len(wr_closed) = 1
    /\ \E b \in Boards :
         /\ CarriedInto(b)
         /\ Field(Stored(b), "timestamp") = Field(wr_appended[b], "timestamp")
         /\ Field(Stored(b), "waveforms") = Field(wr_appended[b], "waveforms")
         /\ Stored(b)[wr_closed[1].boards[b].current_event + 1].trigger_id
              # wr_appended[b][wr_closed[1].boards[b].current_event + 1].trigger_id

\* the board an append_event step was called for
AppendedBoard == (wr_turn' + NumBoards - 1) % NumBoards

\* a step that is an append_event call for an event of the datasets'
\* dimensions
AppendStep ==
    wr_pc = "open" /\ wr_pc' # "flushed" /\ ~DimsMismatch(wr_dims')

\* C15: in every reachable writer state and for every board,
\* current_event + buffer_count is at most max_events_per_board for the
\* open file; an append at the cap goes into a rollover (subrun is
\* incremented) and stages nothing in the current file, an append below
\* the cap does not roll over.
C15_CapNeverExceeded ==
    /\ [](\A b \in Boards :
            wr_boards[b].current_event + buffer_count(wr_boards[b])
              <= max_events_per_board)
    /\ [][AppendStep =>
            IF wr_boards[AppendedBoard].current_event
                 + buffer_count(wr_boards[AppendedBoard]) >= max_events_per_board
            THEN /\ subrun' = subrun + 1
                 /\ wr_pc' = "open" => wr_file'.saved_events
                                         = SumOver([b \in Boards |->
                                                      buffer_count(wr_boards[b])], Boards)
            ELSE /\ subrun' = subrun
                 /\ wr_file' = wr_file]_vars

\* after a rollover a board stands exactly at the cap with an event staged
C15_Witness ==
    /\ wr_pc = "open"
    /\ subrun >= 1
    /\ \E b \in Boards :
         /\ buffer_count(wr_boards[b]) >= 1
         /\ wr_boards[b].current_event >= 1
         /\ wr_boards[b].current_event + buffer_count(wr_boards[b])
              = max_events_per_board

\* the number of ordinals the first n writes of a history cover
RECURSIVE WrittenBy(_, _)
WrittenBy(writes, n) ==
    IF n = 0 THEN 0 ELSE WrittenBy(writes, n - 1) + writes[n][2]

\* C16: within each file and for each board, every write (flush or
\* carried-over buffer) starts exactly at the ordinal the writes before it
\* ended at, the first at 0, and the writes end at current_event: the
\* ordinals written are the range [0, current_event), none skipped and
\* none written twice.
C16_OrdinalsContiguous ==
    \A i \in 1 .. Len(AllFiles) :
        \A b \in Boards :
            LET bd == AllFiles[i].boards[b]
            IN  /\ \A n \in 1 .. Len(bd.writes) :
                     /\ bd.writes[n][1] = WrittenBy(bd.writes, n - 1)
                     /\ bd.writes[n][2] >= 1
                /\ bd.current_event = WrittenBy(bd.writes, Len(bd.writes))

\* a file closed by rollover holds flushed events and the file opened after
\* it got a carried-over buffer and then a flush
C16_Witness ==
    /\ Len(wr_closed) >= 1
    /\ \E b \in Boards :
         /\ Len(wr_closed[1].boards[b].writes) >= 1
         /\ Len(wr_boards[b].writes) >= 2
         /\ wr_boards[b].writes[1][2] < buffer_capacity
         /\ wr_boards[b].writes[2][1] = wr_boards[b].writes[1][2]

\* C17: every write of the writer, flush or carried-over buffer, covers an
\* ordinal range inside [0, max_events_per_board) of the file it goes to.
C17_WritesInsideFile ==
    \A i \in 1 .. Len(AllFiles) :
        \A b \in Boards :
            \A n \in 1 .. Len(AllFiles[i].boards[b].writes) :
                LET w == AllFiles[i].boards[b].writes[n]
                IN  0 <= w[1] /\ w[1] + w[2] <= max_events_per_board

\* a flush ended exactly at the cap of its file after an earlier write to
\* the file, and a rollover has opened another file
C17_Witness ==
    /\ subrun >= 1
    /\ \E i \in 1 .. Len(AllFiles) :
         \E b \in Boards :
            LET ws == AllFiles[i].boards[b].writes
            IN  /\ Len(ws) >= 2
                /\ ws[Len(ws)][1] + ws[Len(ws)][2] = max_events_per_board

\* the aligned group the event with timestamp ts of board b belongs to:
\* the trigger identifier it was appended with
GroupOf(ts, b) ==
    CHOOSE k \in 0 .. MaxAppends : WriterEvent(b, k).timestamp = ts

\* C18: when the events of aligned groups are appended board by board,
\* board 0 first, then in every file and at every ordinal stored for two
\* boards, the events stored come from the same aligned group (they were
\* appended with the same trigger identifier), also after a rollover that
\* board 0's append triggered.
C18_OrdinalsHoldOneGroup ==
    \A i \in 1 .. Len(AllFiles) :
        \A b, c \in Boards :
            \A n \in 1 .. AllFiles[i].boards[b].current_event :
                n <= AllFiles[i].boards[c].current_event =>
                    /\ GroupOf(AllFiles[i].boards[b].timestamps[n], b)
                         = GroupOf(AllFiles[i].boards[c].timestamps[n], c)
                    /\ AllFiles[i].boards[b].waveforms[n]
                         = WriterEvent(b, GroupOf(AllFiles[i].boards[b].timestamps[n], b)).waveforms
                    /\ AllFiles[i].boards[b].triggerids[n]
                         = AllFiles[i].boards[c].triggerids[n]

\* board 0's append rolled over with events staged for every board; the
\* carried events and a later flush are in the new file
C18_Witness ==
    /\ Len(wr_closed) >= 1
    /\ \A b \in Boards :
         /\ Len(wr_boards[b].writes) >= 2
         /\ wr_boards[b].writes[1][2] < buffer_capacity
         /\ wr_closed[1].boards[b].current_event >= 1

\* C19: after flush-all every board's buffer_count is 0 and the
\* saved_events header of the open file, like the writer's saved_events,
\* is the sum over the boards of current_event.
C19_FlushAllHeader ==
    wr_pc = "flushed" =>
        /\ \A b \in Boards : buffer_count(wr_boards[b]) = 0
        /\ wr_file.saved_events
             = SumOver([b \in Boards |-> wr_boards[b].current_event], Boards)
        /\ saved_events = wr_file.saved_events
        /\ \A b \in Boards :
             wr_boards[b].current_event
               = Len(SelectSeq(wr_boards[b].timestamps, LAMBDA x : x # 0))

\* flush-all flushed a partly filled buffer of a file opened by rollover
C19_Witness ==
    /\ wr_pc = "flushed"
    /\ subrun >= 1
    /\ wr_file.saved_events >= 3
    /\ \E b \in Boards :
         LET ws == wr_boards[b].writes
         IN  Len(ws) >= 1 /\ ws[Len(ws)][2] < buffer_capacity

\* C20: after a run that rolled over and ended with flush-all, every file
\* of the run, those closed by rollover and the last one, reports in its
\* saved_events header the number of events written to it, and there is
\* one file per subrun.
C20_EveryFileHeaderCorrect ==
    (wr_pc = "flushed" /\ subrun > 0) =>
        /\ Len(AllFiles) = subrun + 1
        /\ \A i \in 1 .. Len(AllFiles) :
             AllFiles[i].saved_events
               = SumOver([b \in Boards |-> AllFiles[i].boards[b].current_event],
                         Boards)

\* scenario S4: cap 2, capacity 2, three events per board; the first file
\* holds two events per board and reports 0, the second holds one per
\* board and reports 2
C20_Witness ==
    /\ wr_pc = "flushed"
    /\ NumBoards = 2
    /\ max_events_per_board = 2
    /\ buffer_capacity = 2
    /\ \A b \in Boards : Len(wr_appended[b]) = 3
    /\ Len(wr_closed) = 1
    /\ \A b \in Boards : wr_closed[1].boards[b].current_event = 2
    /\ wr_closed[1].saved_events = 0
    /\ \A b \in Boards : wr_boards[b].current_event = 1
    /\ wr_file.saved_events = 2

\* the event the append_event step carried, once it was accepted
AppendedEvent == wr_appended'[AppendedBoard][Len(wr_appended'[AppendedBoard])]

\* the event ev is the last one staged for the board bd, or the last one
\* flushed to its datasets
StagedOrFlushed(bd, ev) ==
    \/ /\ buffer_count(bd) >= 1
       /\ bd.buffer[buffer_count(bd)] = ev
    \/ /\ buffer_count(bd) = 0
       /\ bd.current_event >= 1
       /\ bd.timestamps[bd.current_event] = ev.timestamp
       /\ bd.waveforms[bd.current_event] = ev.waveforms

\* C21: for every cap and buffer capacity a writer can be built with, an
\* append_event call for an event of the right dimensions made when the
\* board's current_event + buffer_count >= max_events_per_board rolls
\* over, and once the rollover has returned Ok the append against the new
\* file returns Ok: subrun is incremented, the new file is open and the
\* event is staged in, or flushed to, the new file's board.
C21_RetryAfterRolloverSucceeds ==
    [][(/\ AppendStep
        /\ wr_boards[AppendedBoard].current_event
             + buffer_count(wr_boards[AppendedBoard]) >= max_events_per_board
        /\ wr_res' # "Rollover")
       => /\ wr_res' = "Ok"
          /\ wr_pc' = "open"
          /\ subrun' = subrun + 1
          /\ wr_file'.name = NewFilename(file_template, subrun + 1)
          /\ Len(wr_appended'[AppendedBoard])
               = Len(wr_appended[AppendedBoard]) + 1
          /\ StagedOrFlushed(wr_boards'[AppendedBoard], AppendedEvent)]_vars

\* an append has just gone through a rollover that carried staged events
\* over and was accepted: the new file's header counts the carried events
\* and one event more is held for it
C21_Witness ==
    /\ wr_pc = "open"
    /\ wr_res = "Ok"
    /\ subrun >= 1
    /\ wr_file.saved_events >= 1
    /\ SumOver([b \in Boards |->
                  wr_boards[b].current_event + buffer_count(wr_boards[b])],
               Boards) = wr_file.saved_events + 1

\* C22: an append_event call for an event whose waveform matrix is not
\* n_channels x n_samples returns the dimension error and leaves every
\* board's current_event, buffer_count and staged data, the subrun number,
\* the open file and the files on disk unchanged; it does not roll over,
\* also when the board is at its cap.
C22_DimensionErrorChangesNothing ==
    [][(/\ wr_pc = "open"
        /\ wr_pc' # "flushed"
        /\ wr_dims' # <<n_channels, n_samples>>)
       => /\ wr_res' = "Dimensions"
          /\ wr_boards' = wr_boards
          /\ subrun' = subrun
          /\ wr_file' = wr_file
          /\ wr_closed' = wr_closed
          /\ saved_events' = saved_events
          /\ wr_appended' = wr_appended]_vars

\* an event of the wrong dimensions was offered for a board that stands
\* at its cap with events staged, and was rejected
C22_Witness ==
    /\ wr_res = "Dimensions"
    /\ wr_dims # <<n_channels, n_samples>>
    /\ \E b \in Boards :
         /\ wr_turn = (b + 1) % NumBoards
         /\ buffer_count(wr_boards[b]) >= 1
         /\ wr_boards[b].current_event + buffer_count(wr_boards[b])
              >= max_events_per_board

\* ------------------------------------------------------------------------
\* Properties of the error paths of a run
\* ------------------------------------------------------------------------
\* C23: a rollover either completes or returns an error on which the
\* pipeline shuts down: once a failed rollover has ended the processing
\* worker and the supervisor has joined it, the shutdown flag is set and
\* every acquisition worker has exited.
C23_FailedRolloverShutsDown ==
    (ev_res = "Panic" /\ Logged(<<"join_ev", NoBoard>>)) =>
        /\ shutdown
        /\ \A b \in Boards : w_pc[b] = "done"

\* the processing worker has panicked on a failed rollover after an
\* aligned group was handed to the writer; the shutdown flag is not set,
\* nothing was flushed, the supervisor still ticks and an acquisition
\* worker still reads its board
C23_Witness ==
    /\ ev_res = "Panic"
    /\ Len(emitted) >= 1
    /\ ~shutdown
    /\ ~flushed
    /\ sup_pc = "tick"
    /\ exit = "None"
    /\ \E b \in Boards : w_pc[b] = "check"

\* ------------------------------------------------------------------------
\* Properties of zero suppression and of the delay functions
\* ------------------------------------------------------------------------
\* C24 as stated: for every threshold, either edge, every bl_samples and
\* every channel, zero_suppress applied to an already zero-suppressed
\* channel returns that channel unchanged.
C24_Idempotent == zs_calls >= 2 => zs_channel = zs_before

\* C24 as amended: on the Rise edge, and with bl_samples = 0 on either
\* edge, a second zero_suppress returns the channel unchanged; on the Fall
\* edge a second zero_suppress leaves every sample as it is or sets it to
\* 0, so that a sample that is 0 stays 0 and further samples may be lost.
C24_IdempotentOnRise ==
    zs_calls >= 2 =>
        /\ (zs_edge = "Rise" \/ zs_bl_samples = 0) => zs_channel = zs_before
        /\ Len(zs_channel) = Len(zs_before)
        /\ \A i \in 1 .. Len(zs_channel) :
              zs_channel[i] \in {0, zs_before[i]}

\* a first zero_suppress on the Rise edge has set a baseline sample to 0
\* and kept another sample, and a second one has run
C24_Witness ==
    /\ zs_calls = 2
    /\ zs_edge = "Rise"
    /\ zs_bl_samples >= 1
    /\ \E i \in 1 .. zs_bl_samples : zs_channel[i] = 0
    /\ \E i \in 1 .. Len(zs_channel) : zs_channel[i] # 0
    /\ zs_threshold > 0

\* the sum of the first n samples of a channel
SumFirst(channel, n) == SumOver([i \in 1 .. n |-> channel[i]], 1 .. n)

\* x - baseline < threshold for baseline = the mean of the first n samples
\* of channel, n >= 1, written without the division
BelowBy(x, channel, n, threshold) ==
    x * n - SumFirst(channel, n) < threshold * n

\* x - baseline > threshold for baseline = the mean of the first n samples
AboveBy(x, channel, n, threshold) ==
    x * n - SumFirst(channel, n) > threshold * n

\* C25: with baseline = the mean of the channel's first bl_samples samples
\* (bl_samples >= 1), zero_suppress sets a sample x to 0 exactly when
\* edge = Rise and x - baseline < threshold, or edge = Fall and
\* x - baseline > threshold, and leaves every other sample unchanged;
\* bl_samples 4, threshold 50, Rise maps
\* [100,100,100,100,120,180,200,100] to [0,0,0,0,0,180,200,0].
C25_SuppressesBySpec ==
    (zs_calls >= 1 /\ zs_bl_samples >= 1) =>
        /\ Len(zs_channel) = Len(zs_before)
        /\ \A i \in 1 .. Len(zs_before) :
              zs_channel[i] =
                IF \/ /\ zs_edge = "Rise"
                      /\ BelowBy(zs_before[i], zs_before, zs_bl_samples,
                                 zs_threshold)
                   \/ /\ zs_edge = "Fall"
                      /\ AboveBy(zs_before[i], zs_before, zs_bl_samples,
                                 zs_threshold)
                THEN 0
                ELSE zs_before[i]
        /\ (/\ zs_before = S5Channel
            /\ zs_threshold = S5Args.threshold
            /\ zs_edge = S5Args.edge
            /\ zs_bl_samples = S5Args.bl_samples)
           => zs_channel = <<0, 0, 0, 0, 0, 180, 200, 0>>

\* zero_suppress has run once on the channel of scenario S5
C25_Witness ==
    /\ zs_calls = 1
    /\ zs_before = S5Channel
    /\ zs_threshold = S5Args.threshold
    /\ zs_edge = S5Args.edge
    /\ zs_bl_samples = S5Args.bl_samples
    /\ zs_channel # zs_before

\* the delays of scenario S6, N = 3: per board index the clock-out delay
\* and the run delay
S6Delays == << <<0 - 2148, 64>>, <<0 - 3111, 16>>, <<0, 0>> >>

\* C26: for every N >= 1 and board index id in 0 .. N-1 the clock-out
\* delay is 0 for the last board, -2148 for board 0 when it is not the
\* last and -3111 otherwise, and the run delay is
\* 8 * (2 * (N - 1 - id) + (4 if id = 0 else 0)); for N = 3 the clock-out
\* delays are (-2148, -3111, 0) and the run delays (64, 16, 0).
C26_DelayTable ==
    /\ dl_clock # <<>> =>
          dl_clock[1] = CASE dl_board_id = dl_num_boards - 1 -> 0
                          [] dl_board_id = 0 -> 0 - 2148
                          [] OTHER -> 0 - 3111
    /\ dl_run # <<>> =>
          dl_run[1] = 8 * (2 * (dl_num_boards - 1 - dl_board_id)
                           + (IF dl_board_id = 0 THEN 4 ELSE 0))
    /\ (dl_num_boards = 3 /\ dl_clock # <<>> /\ dl_run # <<>>) =>
          <<dl_clock[1], dl_run[1]>> = S6Delays[dl_board_id + 1]

\* both delays of board 0 of three boards have been computed
C26_Witness ==
    /\ dl_num_boards = 3
    /\ dl_board_id = 0
    /\ dl_clock = <<0 - 2148>>
    /\ dl_run = <<64>>

\* ------------------------------------------------------------------------
\* Properties of the transit errors and of the run count
\* ------------------------------------------------------------------------
\* C27: when an acquisition worker's send of a tagged event to the event
\* queue fails, the worker stores shutdown and returns DataTakingTransit;
\* it has then left its loop and does not read its board again.
C27_SendFailureEndsWorker ==
    /\ [][\A b \in Boards :
            (w_pc[b] = "send" /\ ~rx_events /\ w_pc'[b] # "send") =>
                /\ shutdown'
                /\ w_res'[b] = "DataTakingTransit"
                /\ w_pc'[b] = "done"
                /\ hw_events'[b] = hw_events[b]]_vars
    /\ [][\A b \in Boards :
            (w_res[b] = "DataTakingTransit" /\ w_res'[b] = "DataTakingTransit") =>
                /\ w_pc'[b] = "done"
                /\ hw_events'[b] = hw_events[b]]_vars

\* a worker found the event queue closed by a processing worker that had
\* panicked, stored shutdown itself (nobody quit, the run had not timed
\* out) and returned DataTakingTransit
C27_Witness ==
    /\ \E b \in Boards : w_pc[b] = "done" /\ w_res[b] = "DataTakingTransit"
    /\ shutdown
    /\ exit = "None"
    /\ ev_res = "Panic"

\* C28: when the processing worker's send on the stats channel fails, it
\* stores shutdown and returns EventProcessingTransit; the group is not
\* appended to the writer and nothing is flushed.
C28_StatsFailureEndsProcessing ==
    [][(/\ ev_pc = "loop"
        /\ chan # <<>>
        /\ chan' = Tail(chan)
        /\ AlignStep(Head(chan)[1], Head(chan)[2]).group
        /\ ~rx_stats)
       => /\ shutdown'
          /\ ev_res' = "EventProcessingTransit"
          /\ ev_pc' = "done"
          /\ emitted' = emitted
          /\ flushed' = flushed]_vars

\* the processing worker aligned a group after Tui::run had returned an
\* error and dropped the stats receiver, and returned
\* EventProcessingTransit
C28_Witness ==
    /\ ev_pc = "done"
    /\ ev_res = "EventProcessingTransit"
    /\ ~rx_stats
    /\ shutdown
    /\ sup_pc = "failed"

\* C29: when the runs argument is given as k, for every k >= 0, the
\* supervisor begins at most k runs before it closes the boards and exits.
C29_AtMostKRuns == max_runs # <<>> => runs_begun <= max_runs[1]

\* with the runs argument 0 a first run has ended by timeout and the
\* supervisor is about to begin a second one
C29_Witness ==
    /\ max_runs = <<0>>
    /\ runs_begun = 1
    /\ curr_run = 1
    /\ end_exit = "Timeout"
    /\ sup_pc = "configure"

\* ------------------------------------------------------------------------
\* Properties of the file names
\* ------------------------------------------------------------------------
\* C30: the first file of a run is named run{N}_00.h5 and the k-th
\* rollover opens run{N}_{k, two digits}.h5, so that the open file's name
\* differs from the name of every file written before it in the run and
\* every rollover leaves one more file on disk.
C30_FileNamesBySubrun ==
    wr_pc \in {"open", "flushed"} =>
        /\ wr_file.name = FormatSubrun(subrun)
        /\ \A i \in 1 .. Len(wr_closed) : wr_closed[i].name # wr_file.name
        /\ Len(wr_closed) = subrun

\* with the file name create_run_file gives, two rollovers have each
\* opened the name of the file that was open: one file is on disk, the
\* events flushed to the earlier ones are gone
C30_Witness ==
    /\ wr_pc = "open"
    /\ subrun = 2
    /\ wr_file.name = <<"0">>
    /\ wr_closed = <<>>
    /\ \E b \in Boards :
         Len(wr_appended[b])
           > wr_boards[b].current_event + buffer_count(wr_boards[b])

\* ------------------------------------------------------------------------
\* Properties of the read loop and of cancellation
\* ------------------------------------------------------------------------
\* C31: in the read loop a Success read is followed by a send that, the
\* receiver being alive, enqueues exactly one event tagged with the
\* worker's board index, after which the loop goes round; a read ends the
\* worker only on Stop, which a disarmed board returns, and then with Ok;
\* every other read (Timeout or any other status) enqueues nothing, sets
\* no flag, returns nothing and leaves the worker in its loop.
C31_ReadLoopReactions ==
    [][\A b \in Boards :
         /\ (w_pc[b] = "read" /\ w_pc'[b] # "read") =>
               /\ w_pc'[b] \in {"send", "check", "done"}
               /\ chan' = chan
               /\ shutdown' = shutdown
               /\ w_pc'[b] = "send" => /\ hw_events'[b] = hw_events[b] + 1
                                       /\ w_res'[b] = w_res[b]
               /\ w_pc'[b] = "check" => /\ hw_events'[b] = hw_events[b]
                                        /\ w_res'[b] = w_res[b]
               /\ w_pc'[b] = "done" => /\ hw_disarmed[b]
                                       /\ w_res'[b] = "Ok"
         /\ (w_pc[b] = "send" /\ w_pc'[b] # "send" /\ rx_events) =>
               /\ chan' = Append(chan, <<b, w_ev[b]>>)
               /\ w_pc'[b] = "check"
               /\ shutdown' = shutdown
               /\ w_res'[b] = w_res[b]]_vars

\* a worker has enqueued the event of a Success read, gone round its loop
\* on a read that gave no event and stands before its next read while the
\* board is not disarmed and no flag is set
C31_Witness ==
    /\ ~shutdown
    /\ \E b \in Boards :
         /\ w_pc[b] = "check"
         /\ hw_events[b] = hw_budget[b]
         /\ hw_budget[b] >= 1
         /\ ~hw_disarmed[b]
         /\ \E i \in 1 .. Len(chan) : chan[i][1] = b

\* every acquisition worker and the processing worker have returned
AllExited == (\A b \in Boards : w_pc[b] = "done") /\ ev_pc = "done"

C33_FlushedOnEveryExit ==
    (ev_pc = "done" /\ ev_res \in {"Ok", "EventProcessingTransit"}) => flushed

\* the processing worker has returned EventProcessingTransit from a failed
\* stats send without any flush_all
C33_Witness ==
    /\ ev_pc = "done"
    /\ ev_res = "EventProcessingTransit"
    /\ ~flushed
    /\ Len(arrived) >= NumBoards

\* ------------------------------------------------------------------------
\* Chunk alignment of the writer's flushes
\* ------------------------------------------------------------------------
\* every write of a whole staging buffer (buffer_capacity events) into the
\* datasets of any file of the run starts at a multiple of buffer_capacity
FullFlushesAligned ==
    \A i \in 1 .. Len(AllFiles) : \A b \in Boards :
        LET writes == AllFiles[i].boards[b].writes
        IN  \A j \in 1 .. Len(writes) :
                writes[j][2] = buffer_capacity =>
                    writes[j][1] % buffer_capacity = 0

\* C34 as stated: every flush of a full staging buffer writes an ordinal
\* range that starts at a multiple of B, for every E and B and also after
\* rollovers that carried staged events.
C34_FullFlushesAligned == FullFlushesAligned

\* C34, amended: when B divides E and the boards are appended in turn, every
\* flush of a full staging buffer writes an ordinal range that starts at a
\* multiple of B; until the final flush_all every board's next ordinal is a
\* multiple of B, so that no rollover carries a staged event.
C34_AlignedWhenBDividesE ==
    max_events_per_board % buffer_capacity = 0 =>
        /\ FullFlushesAligned
        /\ wr_pc = "open" =>
             \A b \in Boards :
                 wr_boards[b].current_event % buffer_capacity = 0

\* with B dividing E and B > 1 a full staging buffer has been flushed
\* behind an earlier one and the file has since been rolled over
C34_Witness ==
    /\ max_events_per_board % buffer_capacity = 0
    /\ buffer_capacity > 1
    /\ subrun >= 1
    /\ wr_res = "Ok"
    /\ \E i \in 1 .. Len(AllFiles) : \E b \in Boards :
         \E j \in 1 .. Len(AllFiles[i].boards[b].writes) :
             /\ AllFiles[i].boards[b].writes[j][2] = buffer_capacity
             /\ AllFiles[i].boards[b].writes[j][1] > 0

NothingFailed ==
    /\ sup_pc # "failed"
    /\ ev_res \in {"none", "Ok"}
    /\ \A b \in Boards : w_res[b] # "FELib"

\* C36: on a user quit during a run in which nothing has failed, every
\* acquisition worker returns Ok: none returns DataTakingTransit from a
\* send that failed because the processing worker had already exited and
\* dropped the receiver.
C36_QuitLeavesWorkersOk ==
    (end_exit = "Quit" /\ NothingFailed) =>
        \A b \in Boards : w_res[b] \in {"none", "Ok"}

\* after a user quit the processing worker has returned Ok and an
\* acquisition worker has returned DataTakingTransit, for which the
\* supervisor has opened the error modal
C36_Witness ==
    /\ end_exit = "Quit"
    /\ NothingFailed
    /\ ev_pc = "done"
    /\ ev_res = "Ok"
    /\ flushed
    /\ \E b \in Boards : w_res[b] = "DataTakingTransit"
    /\ show_popup = "DataTakingTransit"

\* ------------------------------------------------------------------------
\* The per-board queues after a step of the processing worker
\* ------------------------------------------------------------------------
\* C37: after the processing worker has handled an incoming event at least
\* one per-board queue is empty, and an aligned group is emitted in the
\* step in which its last member arrives: the group emitted by a step
\* holds the event that step received.
C37_NoGroupLeftWaiting ==
    /\ [](\E b \in Boards : queues[b] = <<>>)
    /\ [][Len(emitted') > Len(emitted) =>
            /\ Len(emitted') = Len(emitted) + 1
            /\ \E b \in Boards :
                 emitted'[Len(emitted')][b].uid = Len(arrived')]_vars

\* a group has been emitted while another board still holds a queued event,
\* after stale events had been dropped
C37_Witness ==
    /\ Len(emitted) >= 1
    /\ Len(stale) >= 1
    /\ \E b \in Boards : queues[b] # <<>>
    /\ \E b \in Boards : emitted[Len(emitted)][b].uid = Len(arrived)

\* the events still held in the per-board queues
QueuedEvents == SumOver([b \in Boards |-> QueuedCount(b)], Boards)

\* C38: after every step the number of events the processing worker has
\* received equals N times the number of aligned groups emitted, plus
\* misaligned_count, plus the number of events still queued.
C38_EventConservation ==
    Len(arrived) = NumBoards * Len(emitted) + misaligned_count + QueuedEvents

\* every term of the balance is positive: a group emitted, an event
\* dropped as stale and an event still queued
C38_Witness ==
    /\ Len(emitted) >= 1
    /\ misaligned_count >= 1
    /\ QueuedEvents >= 1
    /\ Len(arrived) = MaxEvents

\* ------------------------------------------------------------------------
\* Termination of align_queues
\* ------------------------------------------------------------------------
\* some queue is empty or all queue fronts carry the same identifier
AlignedOrStarved ==
    IF AllNonEmpty(queues) THEN AllEqual(FrontIds(queues)) ELSE TRUE

\* C39: align_queues returns for every finite content of the per-board
\* queues, non-monotone identifiers included, and when it has returned
\* some queue is empty or all queue fronts carry the same identifier; what
\* it returns is what the recursion align_queues computes, and every pass
\* that does not return drops at least one event.
C39_AlignQueuesTerminates ==
    /\ <>(ev_pc = "returned")
    /\ [](ev_pc = "returned" => AlignedOrStarved)
    /\ [][/\ QueuedEvents' <= QueuedEvents
          /\ ev_pc' = "align" => QueuedEvents' < QueuedEvents
          /\ LET st  == [q |-> queues, mc |-> misaligned_count, stale |-> stale]
                 st1 == [q |-> queues', mc |-> misaligned_count', stale |-> stale']
             IN  align_queues(st1) = align_queues(st)]_vars

\* align_queues has returned with equal fronts after it dropped an event,
\* called with a queue whose identifiers were not in increasing order
C39_Witness ==
    /\ ev_pc = "returned"
    /\ arrived = <<>>
    /\ AllNonEmpty(queues)
    /\ misaligned_count >= 1
    /\ \E b \in Boards :
         Len(queues[b]) >= 2 /\ queues[b][1].tid > queues[b][2].tid

\* ------------------------------------------------------------------------
\* Rendering a native status as text
\* ------------------------------------------------------------------------
\* C40: rendering a native status as text terminates: the to_string
\* conversion the supervisor makes for the popup returns.
C40_DisplayReturns == <>(fmt_pc = "returned")

\* the rendering of a status has nested fmt in fmt until the stack was
\* exhausted, without a character written
C40_Witness ==
    /\ fmt_pc = "aborted"
    /\ fmt_depth = MaxFmtDepth
    /\ fmt_status = "Timeout"

====
